---------------------------- MODULE Spec2Model ----------------------------
(***************************************************************************)
(* CSIT timetable generator: the backtracking CSP solver of                *)
(* src/solver/csp_solver.py (class CSPSolver) as a state machine.          *)
(*                                                                         *)
(* The catalog (courses, instructors, instructor_courses, rooms,           *)
(* time_slots) is chosen in Init and never changes.  The pipeline is       *)
(*   build_lecture_variables -> build_domains -> backtrack_search          *)
(* and the recursive dfs() of backtrack_search is unrolled on an explicit  *)
(* stack of frames, one step per loop iteration / call / return.           *)
(*                                                                         *)
(* Python lists are sequences, dicts are functions on their key set.       *)
(* AssignmentValue.timeslot_index keeps Python's 0-based value; the slot   *)
(* it names is time_slots[timeslot_index + 1].                             *)
(***************************************************************************)
EXTENDS Integers, Sequences, FiniteSets, TLC

VARIABLES
    courses,            \* CSPSolver.courses            (list of Course)
    instructors,        \* CSPSolver.instructors        (list of Instructor)
    instructor_courses, \* list of InstructorCourse given to __init__
    rooms,              \* CSPSolver.rooms              (list of Room)
    time_slots,         \* CSPSolver.time_slots         (list of TimeSlot)
    variables,          \* CSPSolver.variables          (list of LectureVar)
    domains,            \* CSPSolver.domains            (list of lists of AssignmentValue)
    pc,                 \* position in the pipeline
    result,             \* the CSPResult of backtrack_search
    doms,               \* backtrack_search: working domains
    assignments,        \* backtrack_search: partial assignment, var_id -> value
    course_professor,   \* backtrack_search: course_id -> instructor_id
    stack,              \* the dfs() call stack, innermost frame last
    oracle,             \* inputs and output of one is_hard_conflict call
    signals,            \* SolverThread: the signals emitted by this run, in order
    fault,              \* the phase of this run that raises an exception, if any
    first_run,          \* what an earlier run on this CSPSolver left
    cancel_requested,   \* the orchestrator has asked the solve to stop
    trail,              \* history: the working state before each pending commit
    workbooks,          \* the sheets data/*.xlsx read by load_data
    generator,          \* the CSITTimetableGenerator object
    tab,                \* the SolverTab widget
    workers,            \* the SolverThread objects created so far
    events              \* the GUI thread's queue of delivered signals

vars == <<courses, instructors, instructor_courses, rooms, time_slots,
          variables, domains, pc, result, doms, assignments,
          course_professor, stack, oracle, signals, fault, first_run,
          cancel_requested, trail, workbooks, generator, tab, workers, events>>

\* what no step of the solver itself changes
\* the other objects of the application, which the solver never touches
elsewhere == <<workbooks, generator, tab, workers, events>>

surroundings == <<fault, first_run, cancel_requested, elsewhere>>

catalog == <<courses, instructors, instructor_courses, rooms, time_slots>>

-----------------------------------------------------------------------------
(* Sequence and string helpers                                             *)

Range(s) == {s[i] : i \in 1..Len(s)}

RECURSIVE Concat(_)
\* the concatenation of a sequence of sequences
Concat(ss) == IF ss = <<>> THEN <<>> ELSE Head(ss) \o Concat(Tail(ss))

RECURSIVE SumOver(_, _)
\* the sum of f[x] over the finite set S
SumOver(S, f) ==
    IF S = {} THEN 0
    ELSE LET x == CHOOSE y \in S : TRUE IN f[x] + SumOver(S \ {x}, f)

EmptyMap == [x \in {} |-> 0]

MapPut(m, k, v) == [x \in DOMAIN m \cup {k} |-> IF x = k THEN v ELSE m[x]]

MapDel(m, k) == [x \in DOMAIN m \ {k} |-> m[x]]

-----------------------------------------------------------------------------
(* Records of src/models/data_models.py.  Only the fields the solver reads *)
(* are kept (Course.name/credits/type/has_lecture, Room.building/          *)
(* room_name/capacity, Instructor.name/preferred_slots and                 *)
(* TimeSlot.start_txt/end_txt are never read by CSPSolver's pipeline).     *)

Course(id, year, specialization, has_lab, is_grad_project) ==
    [id |-> id, year |-> year, specialization |-> specialization,
     has_lab |-> has_lab, is_grad_project |-> is_grad_project]

Instructor(id, role, qualified_courses) ==
    [id |-> id, role |-> role, qualified_courses |-> qualified_courses]

InstructorCourse(instructor_id, course_id) ==
    [instructor_id |-> instructor_id, course_id |-> course_id]

Room(id, room_type) == [id |-> id, room_type |-> room_type]

TimeSlot(id, day, start_min, end_min) ==
    [id |-> id, day |-> day, start_min |-> start_min, end_min |-> end_min]

LectureVar(var_id, course_id, year, group_id, section_id, specialization, session_type, length_min, is_full_day) ==
    [var_id |-> var_id, course_id |-> course_id, year |-> year,
     group_id |-> group_id, section_id |-> section_id,
     specialization |-> specialization, session_type |-> session_type,
     length_min |-> length_min, is_full_day |-> is_full_day]

AssignmentValue(timeslot_index, room_id, instructor_id) ==
    [timeslot_index |-> timeslot_index, room_id |-> room_id,
     instructor_id |-> instructor_id]

CSPResult(success, asg, hard_violations, soft_cost) ==
    [success |-> success, assignments |-> asg,
     hard_violations |-> hard_violations, soft_cost |-> soft_cost]

-----------------------------------------------------------------------------
(* CSPSolver.__init__: the course -> qualified instructors table           *)

Whitespace == {" ", "\t", "\n", "\r"}

RECURSIVE LStrip(_)
\* str.lstrip(): drop leading whitespace
LStrip(s) == IF Len(s) > 0 /\ SubSeq(s, 1, 1) \in Whitespace
             THEN LStrip(SubSeq(s, 2, Len(s))) ELSE s

RECURSIVE RStrip(_)
\* str.rstrip(): drop trailing whitespace
RStrip(s) == IF Len(s) > 0 /\ SubSeq(s, Len(s), Len(s)) \in Whitespace
             THEN RStrip(SubSeq(s, 1, Len(s) - 1)) ELSE s

Strip(s) == RStrip(LStrip(s))

RECURSIVE Find(_, _, _)
\* q.find(sub, pos) with Python's 0-based positions: -1 when absent
Find(q, sub, pos) ==
    IF pos + Len(sub) > Len(q) THEN -1
    ELSE IF SubSeq(q, pos + 1, pos + Len(sub)) = sub THEN pos
    ELSE Find(q, sub, pos + 1)

RECURSIVE QualifiedTokens(_, _)
\* the while loop of __init__ over one qualified_courses string: the
\* comma-separated tokens, stripped, the empty ones dropped
QualifiedTokens(q, pos) ==
    IF pos >= Len(q) THEN <<>>
    ELSE LET comma == Find(q, ",", pos)
             token == Strip(IF comma # -1 THEN SubSeq(q, pos + 1, comma)
                                          ELSE SubSeq(q, pos + 1, Len(q)))
             here  == IF token # "" THEN <<token>> ELSE <<>>
         IN IF comma = -1 THEN here
            ELSE here \o QualifiedTokens(q, comma + 1)

JoinedInstructors(cid) ==
    \* the instructor ids the join table lists for course cid, in row order
    LET rows == SelectSeq(instructor_courses, LAMBDA ic : ic.course_id = cid)
    IN [i \in 1..Len(rows) |-> rows[i].instructor_id]

ParsedInstructors(cid) ==
    \* the fallback: one entry per token equal to cid, instructor by instructor
    Concat([i \in 1..Len(instructors) |->
        LET toks == SelectSeq(QualifiedTokens(instructors[i].qualified_courses, 0),
                              LAMBDA t : t = cid)
        IN [k \in 1..Len(toks) |-> instructors[i].id]])

course_to_instructors(cid) ==
    \* self.course_to_instructors[cid]; the key is present iff the list is
    \* non-empty (a key is only ever created by appending to it)
    IF instructor_courses # <<>> THEN JoinedInstructors(cid)
    ELSE ParsedInstructors(cid)

course_index_has(cid) == \E i \in 1..Len(courses) : courses[i].id = cid

-----------------------------------------------------------------------------
(* CSPSolver.build_lecture_variables                                       *)

year1 == <<"LRA401", "CSC111", "MTH111", "PHY113", "ECE111", "LRA101", "LRA104", "LRA105">>
year2 == <<"MTH212", "ACM215", "LRA403", "CSC211", "CNC111", "CSC114", "CSE214", "LRA306">>
year3 == <<"AID311", "AID312", "BIF311", "CNC311", "CNC312", "CNC314", "CSC314", "CSC317", "ECE324">>
japanese_languages == <<"LRA401", "LRA403">>
specializations == <<"AID", "BIF", "CSC", "CNC">>

LastGroup == 3
LastSection == 3
LectureLength == 90

IsCommon(c) == c.specialization = "Common" \/ c.specialization = ""

YearTag(c) == c.id \o "_Y" \o ToString(c.year)
LectureVarsOf_NoYear3Whitelist(c) ==
    \* the year-3 whitelist is not consulted
    IF c.year < 1 \/ c.year > 4 THEN <<>>
    ELSE IF c.is_grad_project THEN <<>>
    ELSE IF c.year = 1 /\ c.id \notin Range(year1) THEN <<>>
    ELSE IF c.year = 2 /\ c.id \notin Range(year2) THEN <<>>
    ELSE IF c.year = 3 \/ c.year = 4 THEN
        IF IsCommon(c) THEN
            [k \in 1..Len(specializations) |->
                LectureVar(YearTag(c) \o "_" \o specializations[k] \o "_LEC",
                           c.id, c.year, 0, 0, specializations[k],
                           "LECTURE", LectureLength, FALSE)]
        ELSE
            <<LectureVar(YearTag(c) \o "_" \o c.specialization \o "_LEC",
                         c.id, c.year, 0, 0, c.specialization,
                         "LECTURE", LectureLength, FALSE)>>
    ELSE IF c.id \in Range(japanese_languages) THEN
        Concat([grp \in 1..LastGroup |-> [sec \in 1..LastSection |->
            LectureVar(YearTag(c) \o "_G" \o ToString(grp) \o "_S" \o ToString(sec),
                       c.id, c.year, grp, sec, "",
                       "LECTURE", LectureLength, FALSE)]])
    ELSE
        [grp \in 1..LastGroup |->
            LectureVar(YearTag(c) \o "_G" \o ToString(grp) \o "_LEC",
                       c.id, c.year, grp, 0, "",
                       "LECTURE", LectureLength, FALSE)]

LectureVarsOf(c) ==
    \* one iteration of the first loop: the LECTURE variables of course c
    IF c.year < 1 \/ c.year > 4 THEN <<>>
    ELSE IF c.is_grad_project THEN <<>>
    ELSE IF c.year = 1 /\ c.id \notin Range(year1) THEN <<>>
    ELSE IF c.year = 2 /\ c.id \notin Range(year2) THEN <<>>
    ELSE IF c.year = 3 /\ c.id \notin Range(year3) THEN <<>>
    ELSE IF c.year = 3 \/ c.year = 4 THEN
        IF IsCommon(c) THEN
            [k \in 1..Len(specializations) |->
                LectureVar(YearTag(c) \o "_" \o specializations[k] \o "_LEC",
                           c.id, c.year, 0, 0, specializations[k],
                           "LECTURE", LectureLength, FALSE)]
        ELSE
            <<LectureVar(YearTag(c) \o "_" \o c.specialization \o "_LEC",
                         c.id, c.year, 0, 0, c.specialization,
                         "LECTURE", LectureLength, FALSE)>>
    ELSE IF c.id \in Range(japanese_languages) THEN
        Concat([grp \in 1..LastGroup |-> [sec \in 1..LastSection |->
            LectureVar(YearTag(c) \o "_G" \o ToString(grp) \o "_S" \o ToString(sec),
                       c.id, c.year, grp, sec, "",
                       "LECTURE", LectureLength, FALSE)]])
    ELSE
        [grp \in 1..LastGroup |->
            LectureVar(YearTag(c) \o "_G" \o ToString(grp) \o "_LEC",
                       c.id, c.year, grp, 0, "",
                       "LECTURE", LectureLength, FALSE)]
LabVarsOf_HasLabOnly(c) ==
    \* a graduation project without has_lab gets no session
    IF c.year < 1 \/ c.year > 4 THEN <<>>
    ELSE IF ~c.has_lab THEN <<>>
    ELSE IF c.year = 1 \/ c.year = 2 THEN
        Concat([grp \in 1..LastGroup |-> [sec \in 1..LastSection |->
            LectureVar(YearTag(c) \o "_G" \o ToString(grp) \o "_S" \o ToString(sec) \o "_LAB",
                       c.id, c.year, grp, sec, "",
                       "LAB", LectureLength, c.is_grad_project)]])
    ELSE IF IsCommon(c) THEN
        [k \in 1..Len(specializations) |->
            LectureVar(YearTag(c) \o "_" \o specializations[k] \o "_S1_LAB",
                       c.id, c.year, 0, 1, specializations[k],
                       "LAB", LectureLength, c.is_grad_project)]
    ELSE
        <<LectureVar(YearTag(c) \o "_" \o c.specialization \o "_S1_LAB",
                     c.id, c.year, 0, 1, c.specialization,
                     "LAB", LectureLength, c.is_grad_project)>>

LabVarsOf(c) ==
    \* one iteration of the second loop: the LAB variables of course c
    IF c.year < 1 \/ c.year > 4 THEN <<>>
    ELSE IF ~c.has_lab /\ ~c.is_grad_project THEN <<>>
    ELSE IF c.year = 1 \/ c.year = 2 THEN
        Concat([grp \in 1..LastGroup |-> [sec \in 1..LastSection |->
            LectureVar(YearTag(c) \o "_G" \o ToString(grp) \o "_S" \o ToString(sec) \o "_LAB",
                       c.id, c.year, grp, sec, "",
                       "LAB", LectureLength, c.is_grad_project)]])
    ELSE IF IsCommon(c) THEN
        [k \in 1..Len(specializations) |->
            LectureVar(YearTag(c) \o "_" \o specializations[k] \o "_S1_LAB",
                       c.id, c.year, 0, 1, specializations[k],
                       "LAB", LectureLength, c.is_grad_project)]
    ELSE
        <<LectureVar(YearTag(c) \o "_" \o c.specialization \o "_S1_LAB",
                     c.id, c.year, 0, 1, c.specialization,
                     "LAB", LectureLength, c.is_grad_project)>>

build_lecture_variables ==
    \* self.variables after the call: all LECTURE variables in course order,
    \* then all LAB variables in course order
    Concat([i \in 1..Len(courses) |-> LectureVarsOf(courses[i])])
    \o Concat([i \in 1..Len(courses) |-> LabVarsOf(courses[i])])

-----------------------------------------------------------------------------
(* CSPSolver.build_domains                                                 *)

LectureRoomTypes == <<"Classroom", "Theater", "Hall">>

\* labs held in Lab rooms only
LabRoomTypes_LabOnly == <<"Lab">>

LabRoomTypes == <<"Lab", "Classroom">>

instructor_index_has(id) == \E i \in 1..Len(instructors) : instructors[i].id = id

instructor_index(id) ==
    \* {ins.id: ins for ins in self.instructors}[id]: the last row wins
    LET last == CHOOSE i \in 1..Len(instructors) :
                    /\ instructors[i].id = id
                    /\ \A j \in (i + 1)..Len(instructors) : instructors[j].id # id
    IN instructors[last]

WithRole(role) ==
    \* [ins.id for ins in self.instructors if ins.role == role]
    LET rows == SelectSeq(instructors, LAMBDA ins : ins.role = role)
    IN [i \in 1..Len(rows) |-> rows[i].id]

QualifiedWithRole(cid, role) ==
    \* the ids listed for the course whose instructor row has the role
    SelectSeq(course_to_instructors(cid),
              LAMBDA id : instructor_index_has(id) /\ instructor_index(id).role = role)

AllInstructorIds == [i \in 1..Len(instructors) |-> instructors[i].id]
QualifiedInstructors_NoProfessorFallback(v) ==
    \* a lecture with no qualified professor is not given the other professors
    IF v.session_type = "LECTURE" THEN QualifiedWithRole(v.course_id, "Professor")
    ELSE
        IF QualifiedWithRole(v.course_id, "Assistant Professor") # <<>>
        THEN QualifiedWithRole(v.course_id, "Assistant Professor")
        ELSE IF WithRole("Assistant Professor") # <<>>
        THEN WithRole("Assistant Professor")
        ELSE AllInstructorIds

QualifiedInstructors(v) ==
    \* qualified_instructors of build_domains for variable v, after fallbacks
    IF v.session_type = "LECTURE" THEN
        IF QualifiedWithRole(v.course_id, "Professor") # <<>>
        THEN QualifiedWithRole(v.course_id, "Professor")
        ELSE WithRole("Professor")
    ELSE
        IF QualifiedWithRole(v.course_id, "Assistant Professor") # <<>>
        THEN QualifiedWithRole(v.course_id, "Assistant Professor")
        ELSE IF WithRole("Assistant Professor") # <<>>
        THEN WithRole("Assistant Professor")
        ELSE AllInstructorIds

RoomTypesFor(v) ==
    IF v.session_type = "LECTURE" THEN LectureRoomTypes ELSE LabRoomTypes

DomainOf(v) ==
    \* self.domains[vi] for variable v: slots in list order, then rooms, then
    \* instructors; a variable that is neither LECTURE nor LAB, or whose
    \* course is unknown, keeps the empty list
    IF ~course_index_has(v.course_id) THEN <<>>
    ELSE IF v.session_type \notin {"LECTURE", "LAB"} THEN <<>>
    ELSE
        LET quals == QualifiedInstructors(v)
            rms   == SelectSeq(rooms, LAMBDA r : r.room_type \in Range(RoomTypesFor(v)))
        IN Concat([t \in 1..Len(time_slots) |->
               IF (time_slots[t].end_min - time_slots[t].start_min) < v.length_min
               THEN <<>>
               ELSE Concat([r \in 1..Len(rms) |->
                        [s \in 1..Len(quals) |->
                            AssignmentValue(t - 1, rms[r].id, quals[s])]])])

build_domains == [vi \in 1..Len(variables) |-> DomainOf(variables[vi])]

-----------------------------------------------------------------------------
(* CSPSolver.is_hard_conflict                                              *)

Slot(a) == time_slots[a.timeslot_index + 1]

\* Variants of is_hard_conflict, each with one rule changed
is_hard_conflict_NoRoomRule(a, b, va, vb) ==
    /\ Slot(a).day = Slot(b).day
    /\ \/ va.is_full_day \/ vb.is_full_day
       \/ ~(Slot(a).end_min <= Slot(b).start_min \/ Slot(b).end_min <= Slot(a).start_min)
    /\ \/ a.instructor_id # "" /\ a.instructor_id = b.instructor_id
       \/ /\ va.group_id > 0 /\ va.year = vb.year /\ va.group_id = vb.group_id
          /\ ~(va.session_type = "LAB" /\ vb.session_type = "LAB"
               /\ va.section_id # vb.section_id)
       \/ va.specialization # "" /\ va.year = vb.year /\ va.specialization = vb.specialization
       \/ /\ va.course_id = vb.course_id
          /\ va.session_type = "LECTURE" /\ vb.session_type = "LECTURE"
          /\ a.instructor_id # "" /\ b.instructor_id # ""
          /\ a.instructor_id # b.instructor_id

is_hard_conflict_SlotTimesOnly(a, b, va, vb) ==
    \* is_full_day ignored in time_overlap
    /\ Slot(a).day = Slot(b).day
    /\ ~(Slot(a).end_min <= Slot(b).start_min \/ Slot(b).end_min <= Slot(a).start_min)
    /\ \/ a.instructor_id # "" /\ a.instructor_id = b.instructor_id
       \/ a.room_id = b.room_id
       \/ /\ va.group_id > 0 /\ va.year = vb.year /\ va.group_id = vb.group_id
          /\ ~(va.session_type = "LAB" /\ vb.session_type = "LAB"
               /\ va.section_id # vb.section_id)
       \/ va.specialization # "" /\ va.year = vb.year /\ va.specialization = vb.specialization
       \/ /\ va.course_id = vb.course_id
          /\ va.session_type = "LECTURE" /\ vb.session_type = "LECTURE"
          /\ a.instructor_id # "" /\ b.instructor_id # ""
          /\ a.instructor_id # b.instructor_id

is_hard_conflict_NoGroupRule(a, b, va, vb) ==
    /\ Slot(a).day = Slot(b).day
    /\ \/ va.is_full_day \/ vb.is_full_day
       \/ ~(Slot(a).end_min <= Slot(b).start_min \/ Slot(b).end_min <= Slot(a).start_min)
    /\ \/ a.instructor_id # "" /\ a.instructor_id = b.instructor_id
       \/ a.room_id = b.room_id
       \/ va.specialization # "" /\ va.year = vb.year /\ va.specialization = vb.specialization
       \/ /\ va.course_id = vb.course_id
          /\ va.session_type = "LECTURE" /\ vb.session_type = "LECTURE"
          /\ a.instructor_id # "" /\ b.instructor_id # ""
          /\ a.instructor_id # b.instructor_id

is_hard_conflict_NoSpecializationRule(a, b, va, vb) ==
    /\ Slot(a).day = Slot(b).day
    /\ \/ va.is_full_day \/ vb.is_full_day
       \/ ~(Slot(a).end_min <= Slot(b).start_min \/ Slot(b).end_min <= Slot(a).start_min)
    /\ \/ a.instructor_id # "" /\ a.instructor_id = b.instructor_id
       \/ a.room_id = b.room_id
       \/ /\ va.group_id > 0 /\ va.year = vb.year /\ va.group_id = vb.group_id
          /\ ~(va.session_type = "LAB" /\ vb.session_type = "LAB"
               /\ va.section_id # vb.section_id)
       \/ /\ va.course_id = vb.course_id
          /\ va.session_type = "LECTURE" /\ vb.session_type = "LECTURE"
          /\ a.instructor_id # "" /\ b.instructor_id # ""
          /\ a.instructor_id # b.instructor_id

is_hard_conflict_TouchingOverlap(a, b, va, vb) ==
    \* "<" for "<=": slots that only touch count as overlapping
    /\ Slot(a).day = Slot(b).day
    /\ \/ va.is_full_day \/ vb.is_full_day
       \/ ~(Slot(a).end_min < Slot(b).start_min \/ Slot(b).end_min < Slot(a).start_min)
    /\ \/ a.instructor_id # "" /\ a.instructor_id = b.instructor_id
       \/ a.room_id = b.room_id
       \/ /\ va.group_id > 0 /\ va.year = vb.year /\ va.group_id = vb.group_id
          /\ ~(va.session_type = "LAB" /\ vb.session_type = "LAB"
               /\ va.section_id # vb.section_id)
       \/ va.specialization # "" /\ va.year = vb.year /\ va.specialization = vb.specialization
       \/ /\ va.course_id = vb.course_id
          /\ va.session_type = "LECTURE" /\ vb.session_type = "LECTURE"
          /\ a.instructor_id # "" /\ b.instructor_id # ""
          /\ a.instructor_id # b.instructor_id

is_hard_conflict(a, b, va, vb) ==
    LET ts_a == Slot(a)
        ts_b == Slot(b)
        time_overlap ==
            \/ va.is_full_day \/ vb.is_full_day
            \/ ~(ts_a.end_min <= ts_b.start_min \/ ts_b.end_min <= ts_a.start_min)
    IN IF ts_a.day # ts_b.day THEN FALSE
       ELSE IF ~time_overlap THEN FALSE
       ELSE IF a.instructor_id # "" /\ b.instructor_id # ""
               /\ a.instructor_id = b.instructor_id THEN TRUE
       ELSE IF a.room_id = b.room_id THEN TRUE
       ELSE IF /\ va.group_id > 0 /\ vb.group_id > 0
               /\ va.year = vb.year /\ va.group_id = vb.group_id
               /\ ~(/\ va.session_type = "LAB" /\ vb.session_type = "LAB"
                    /\ va.section_id # vb.section_id) THEN TRUE
       ELSE IF /\ va.specialization # "" /\ vb.specialization # ""
               /\ va.year = vb.year
               /\ va.specialization = vb.specialization THEN TRUE
       ELSE IF /\ va.course_id = vb.course_id
               /\ va.session_type = "LECTURE" /\ vb.session_type = "LECTURE"
               /\ a.instructor_id # "" /\ b.instructor_id # ""
               /\ a.instructor_id # b.instructor_id THEN TRUE
       ELSE FALSE

-----------------------------------------------------------------------------
(* CSPSolver.compute_soft_cost                                             *)

EarliestPenalty == 5
RepeatPenalty == 2

CourseOfVarId(var_id) ==
    \* var_id[:pos] with pos = var_id.find("_Y"), the whole id when absent
    LET pos == Find(var_id, "_Y", 0)
    IN IF pos # -1 THEN SubSeq(var_id, 1, pos) ELSE var_id

compute_soft_cost(asg) ==
    IF time_slots = <<>> THEN 0
    ELSE
        LET earliest_start_min ==
                CHOOSE m \in {time_slots[i].start_min : i \in 1..Len(time_slots)} :
                    \A i \in 1..Len(time_slots) : m <= time_slots[i].start_min
            early == {id \in DOMAIN asg : Slot(asg[id]).start_min = earliest_start_min}
            pairs == {<<CourseOfVarId(id), Slot(asg[id]).day>> : id \in DOMAIN asg}
            count == [p \in pairs |->
                        Cardinality({id \in DOMAIN asg :
                            <<CourseOfVarId(id), Slot(asg[id]).day>> = p})]
            extra == [p \in pairs |-> IF count[p] > 1 THEN (count[p] - 1) * RepeatPenalty ELSE 0]
        IN EarliestPenalty * Cardinality(early) + SumOver(pairs, extra)

-----------------------------------------------------------------------------
(* CSPSolver.backtrack_search and its nested dfs()                         *)

Frame(phase, chosen, domain_copy, k, changed) ==
    \* one activation of dfs(): chosen is the index into variables (0 for
    \* Python's -1), k the position of the for loop in domain_copy, changed
    \* the undo log of the candidate whose recursive call is pending
    [phase |-> phase, chosen |-> chosen, domain_copy |-> domain_copy,
     k |-> k, changed |-> changed]

EnterFrame == Frame("enter", 0, <<>>, 0, <<>>)

Top == stack[Len(stack)]

\* doms, assignments and course_professor as they are now
WorkingState ==
    [doms |-> doms, assignments |-> assignments, course_professor |-> course_professor]

SetTop(f) == [stack EXCEPT ![Len(stack)] = f]

Assigned(asg, j) == variables[j].var_id \in DOMAIN asg

Unassigned(asg) == {j \in 1..Len(variables) : ~Assigned(asg, j)}
MRVChoice_LastOnTie(asg, ds) ==
    \* "<=" in place of "<": the last of the smallest domains wins
    IF Unassigned(asg) = {} THEN 0
    ELSE CHOOSE i \in Unassigned(asg) :
            /\ \A j \in Unassigned(asg) : Len(ds[i]) <= Len(ds[j])
            /\ \A j \in Unassigned(asg) : j > i => Len(ds[i]) < Len(ds[j])

MRVChoice(asg, ds) ==
    \* the first unassigned index whose working domain is strictly smaller
    \* than every earlier candidate's; 0 when every var_id is assigned
    IF Unassigned(asg) = {} THEN 0
    ELSE CHOOSE i \in Unassigned(asg) :
            /\ \A j \in Unassigned(asg) : Len(ds[i]) <= Len(ds[j])
            /\ \A j \in Unassigned(asg) : j < i => Len(ds[i]) < Len(ds[j])

FirstIndexOf(var_id) ==
    \* next((i for i, v in enumerate(self.variables) if v.var_id == var_id), None)
    CHOOSE i \in 1..Len(variables) :
        /\ variables[i].var_id = var_id
        /\ \A j \in 1..(i - 1) : variables[j].var_id # var_id

ProfessorMismatch(v, val, cp) ==
    \* the course-professor test made before a candidate is committed
    /\ v.session_type = "LECTURE"
    /\ v.course_id \in DOMAIN cp
    /\ cp[v.course_id] # val.instructor_id

ConflictsWithAssigned(v, val, asg) ==
    \* the loop over assignments.items() that sets conflict
    \E id \in DOMAIN asg :
        is_hard_conflict(val, asg[id], v, variables[FirstIndexOf(id)])

CommitProfessor_Forget(v, val, cp) ==
    \* the professor of the course is not recorded
    cp

CommitProfessor(v, val, cp) ==
    \* course_professor after the commit of val to v
    IF v.session_type = "LECTURE" THEN MapPut(cp, v.course_id, val.instructor_id)
    ELSE cp
CandidateValid_ConflictOnly(v, val, w, cand, cp) ==
    \* the course-professor filter of forward checking is left out
    ~is_hard_conflict(val, cand, v, w)

CandidateValid(v, val, w, cand, cp) ==
    \* forward checking: cand stays in w's working domain after val is
    \* committed to v
    /\ ~is_hard_conflict(val, cand, v, w)
    /\ ~(/\ w.session_type = "LECTURE"
         /\ w.course_id \in DOMAIN cp
         /\ cp[w.course_id] # cand.instructor_id)

ForwardCheck(v, val, asg, cp, ds) ==
    \* the working domains after forward checking (asg and cp already hold
    \* the commit)
    [j \in 1..Len(ds) |->
        IF Assigned(asg, j) THEN ds[j]
        ELSE SelectSeq(ds[j], LAMBDA cand : CandidateValid(v, val, variables[j], cand, cp))]

ChangedLog(old, new) ==
    \* changed: (j, old domain) for every domain whose length changed
    LET idx == SelectSeq([j \in 1..Len(old) |-> j],
                         LAMBDA j : Len(new[j]) # Len(old[j]))
    IN [n \in 1..Len(idx) |-> <<idx[n], old[idx[n]]>>]
RestoreDomains_FirstOnly(ds, changed) ==
    \* only the first entry of the undo log is written back
    IF changed = <<>> THEN ds
    ELSE [ds EXCEPT ![Head(changed)[1]] = Head(changed)[2]]

RECURSIVE RestoreDomains(_, _)
\* for j, old_dom in changed: doms[j] = old_dom
RestoreDomains(ds, changed) ==
    IF changed = <<>> THEN ds
    ELSE RestoreDomains([ds EXCEPT ![Head(changed)[1]] = Head(changed)[2]],
                        Tail(changed))
RollbackProfessor_NeverPop(v, asg, cp) ==
    \* the entry of the course is kept whatever remains assigned
    cp

RollbackProfessor(v, asg, cp) ==
    \* course_professor after v's entry was deleted from asg: the course's
    \* entry is popped unless another assigned LECTURE of the course remains
    IF v.session_type # "LECTURE" THEN cp
    ELSE IF \E id \in DOMAIN asg : \E j \in 1..Len(variables) :
                /\ variables[j].var_id = id
                /\ variables[j].course_id = v.course_id
                /\ variables[j].session_type = "LECTURE"
         THEN cp
    ELSE MapDel(cp, v.course_id)

AnyEmpty(asg, ds) == \E j \in 1..Len(ds) : ~Assigned(asg, j) /\ ds[j] = <<>>

-----------------------------------------------------------------------------
(* The catalogs the solver is constructed on                               *)

MaxCourses == 2

Catalog(cs, ins, ics, rms, tss) ==
    [courses |-> cs, instructors |-> ins, instructor_courses |-> ics,
     rooms |-> rms, time_slots |-> tss]

\* year-4 courses of one specialization (one LECTURE, one LAB or one
\* full-day LAB each)
CoursePool ==
    { Course("CS401", 4, "AID", FALSE, FALSE),
      Course("CS402", 4, "AID", TRUE,  FALSE),
      Course("CS403", 4, "BIF", FALSE, FALSE),
      Course("GP400", 4, "BIF", FALSE, TRUE) }

CourseLists == UNION {[1..n -> CoursePool] : n \in 0..MaxCourses}

Sun1  == TimeSlot(1, "Sunday", 540, 630)
Sun2  == TimeSlot(2, "Sunday", 630, 720)
Sun3  == TimeSlot(3, "Sunday", 720, 810)
Sun4  == TimeSlot(4, "Sunday", 810, 900)
SunMid == TimeSlot(5, "Sunday", 585, 675)
SunShort == TimeSlot(6, "Sunday", 540, 585)
Mon1  == TimeSlot(7, "Monday", 540, 630)

SlotLists ==
    { <<>>,
      <<Sun1>>,
      <<Sun1, Sun2>>,
      <<Sun1, SunMid, Mon1>>,
      <<SunShort, Sun2>> }

RoomLists ==
    { <<Room("R1", "Classroom")>>,
      <<Room("R1", "Classroom"), Room("L1", "Lab")>>,
      <<Room("H1", "Hall"), Room("O1", "Office")>>,
      <<Room("L1", "Lab")>> }

Staffing(ins, ics) == [instructors |-> ins, instructor_courses |-> ics]

Staffings ==
    { \* one professor, nothing listed: every fallback is taken
      Staffing(<<Instructor("P1", "Professor", "")>>, <<>>),
      \* the join table
      Staffing(<<Instructor("P1", "Professor", ""),
                 Instructor("P2", "Professor", ""),
                 Instructor("A1", "Assistant Professor", "")>>,
               <<InstructorCourse("P1", "CS401"), InstructorCourse("P2", "CS401"),
                 InstructorCourse("P2", "CS403"), InstructorCourse("A1", "CS402"),
                 InstructorCourse("P1", "CS402"), InstructorCourse("ZZ", "CS403")>>),
      \* the qualification strings
      Staffing(<<Instructor("P1", "Professor", "CS401, CS402 ,,CS403"),
                 Instructor("A1", "Assistant Professor", "CS402,GP400"),
                 Instructor("A2", "Assistant Professor", " CS402")>>, <<>>),
      \* no professor at all
      Staffing(<<Instructor("A1", "Assistant Professor", "")>>, <<>>) }

SpecializationCatalogs ==
    { Catalog(cs, st.instructors, st.instructor_courses, rms, tss) :
        cs \in CourseLists, st \in Staffings, rms \in RoomLists, tss \in SlotLists }

\* catalogs with cohorts: groups and sections of years 1-2, the four
\* specializations of a common year-3 course
CohortCatalogs ==
    { \* two whitelisted year-1 lecture courses, three groups each
      Catalog(<<Course("CSC111", 1, "", FALSE, FALSE), Course("MTH111", 1, "", FALSE, FALSE)>>,
              <<Instructor("P1", "Professor", ""), Instructor("P2", "Professor", "")>>,
              <<InstructorCourse("P1", "CSC111"), InstructorCourse("P2", "MTH111")>>,
              <<Room("R1", "Classroom"), Room("R2", "Theater")>>,
              <<Sun1, Sun2, Sun3>>),
      \* a common year-3 course: four lectures, two qualified professors
      Catalog(<<Course("AID311", 3, "Common", FALSE, FALSE)>>,
              <<Instructor("P1", "Professor", ""), Instructor("P2", "Professor", "")>>,
              <<InstructorCourse("P1", "AID311"), InstructorCourse("P2", "AID311")>>,
              <<Room("R1", "Classroom"), Room("R2", "Classroom")>>,
              <<Sun1, Sun2, Sun3, Mon1>>),
      \* the same with too few slots
      Catalog(<<Course("AID311", 3, "", FALSE, FALSE)>>,
              <<Instructor("P1", "Professor", ""), Instructor("P2", "Professor", "")>>,
              <<InstructorCourse("P1", "AID311"), InstructorCourse("P2", "AID311")>>,
              <<Room("R1", "Classroom"), Room("R2", "Classroom")>>,
              <<Sun1, Sun2, SunMid>>),
      \* a graduation project next to a lecture course and a lab course
      Catalog(<<Course("GP400", 4, "BIF", FALSE, TRUE), Course("CS401", 4, "AID", FALSE, FALSE),
                Course("CS402", 4, "AID", TRUE, FALSE)>>,
              <<Instructor("P1", "Professor", ""), Instructor("A1", "Assistant Professor", "")>>,
              <<>>,
              <<Room("R1", "Classroom"), Room("L1", "Lab")>>,
              <<Sun1, Sun2, Sun3, Mon1>>),
      \* a year-1 lab course off the whitelist: nine labs
      Catalog(<<Course("CSC112", 1, "", TRUE, FALSE)>>,
              <<Instructor("A1", "Assistant Professor", ""),
                Instructor("A2", "Assistant Professor", ""),
                Instructor("A3", "Assistant Professor", "")>>,
              <<>>,
              <<Room("L1", "Lab"), Room("L2", "Lab"), Room("R1", "Classroom")>>,
              <<Sun1, Sun2, Sun3>>),
      \* a whitelisted year-2 course with a lab: three lectures, nine labs
      Catalog(<<Course("CSC211", 2, "", TRUE, FALSE)>>,
              <<Instructor("P1", "Professor", "CSC211"),
                Instructor("A1", "Assistant Professor", "CSC211"),
                Instructor("A2", "Assistant Professor", "CSC211")>>,
              <<>>,
              <<Room("L1", "Lab"), Room("L2", "Lab"), Room("H1", "Hall")>>,
              <<Sun1, Sun2, Sun3, Sun4, Mon1>>) }

Catalogs == SpecializationCatalogs \cup CohortCatalogs
-----------------------------------------------------------------------------
(* CSITTimetableGenerator (src/timetable_generator.py): the propagation    *)
(* formulation.  Dicts are sequences in insertion order whose entries      *)
(* carry their key; slot counts are kept in halves of a slot (the sheets   *)
(* hold 0.5, 1, 2, 4), capacities and head counts as integers.             *)

GRADUATION_PROJECTS == <<"CSC413", "AID414", "CNC414", "BIF410">>

\* an empty cell of a sheet (pd.isna)
NoCell == "NaN"

CourseRow(CourseCode, Year, Specialization, LecSlots, TutSlots, LabSlots) ==
    [CourseCode |-> CourseCode, Year |-> Year, Specialization |-> Specialization,
     LecSlots |-> LecSlots, TutSlots |-> TutSlots, LabSlots |-> LabSlots]

SectionRow(Year, DepartmentName, GroupNumber, SectionNumber, StudentNumber) ==
    [Year |-> Year, DepartmentName |-> DepartmentName, GroupNumber |-> GroupNumber,
     SectionNumber |-> SectionNumber, StudentNumber |-> StudentNumber]

StaffRow(ID, QualifiedCourses) == [ID |-> ID, QualifiedCourses |-> QualifiedCourses]

HallRow(Building, Space, Capacity, Type) ==
    [Building |-> Building, Space |-> Space, Capacity |-> Capacity, Type |-> Type]

SlotRow(Day, StartTime, EndTime) == [Day |-> Day, StartTime |-> StartTime, EndTime |-> EndTime]

Workbooks(cs, secs, ins, tas, halls, slots) ==
    [Courses |-> cs, Sections |-> secs, Instructor |-> ins, TAs |-> tas,
     Halls |-> halls, TimeSlots |-> slots]

NoWorkbooks == Workbooks(<<>>, <<>>, <<>>, <<>>, <<>>, <<>>)

\* __init__: target_year 0 and target_specialization "" stand for None
NewGenerator(target_year, target_specialization) ==
    [pc |-> "constructed",
     target_year |-> target_year, target_specialization |-> target_specialization,
     courses |-> <<>>, sections |-> <<>>, groups |-> <<>>, instructors |-> <<>>,
     tas |-> <<>>, halls |-> <<>>, timeslots |-> <<>>,
     session_vars |-> <<>>, model |-> {}, selected |-> {}, success |-> FALSE]

\* SolverTab.__init__ and init_ui: no solver, no thread, Solve and Export
\* disabled, Load Database enabled
NewSolverTab ==
    [solver |-> 0, solver_thread |-> 0, has_result |-> FALSE,
     load_btn |-> TRUE, solve_btn |-> FALSE, export_btn |-> FALSE]

\* the rest of the application while only the CSPSolver pipeline runs
Elsewhere ==
    /\ workbooks = NoWorkbooks
    /\ generator = NewGenerator(0, "")
    /\ tab = NewSolverTab
    /\ workers = <<>>
    /\ events = <<>>

Contains(q, sub) == Find(q, sub, 0) # -1

RECURSIVE Split(_, _)
\* q.split(','): the pieces between the commas, the empty ones kept
Split(q, pos) ==
    LET comma == Find(q, ",", pos)
    IN IF comma = -1 THEN <<SubSeq(q, pos + 1, Len(q))>>
       ELSE <<SubSeq(q, pos + 1, comma)>> \o Split(q, comma + 1)

Qualified(cell) ==
    \* [c.strip() for c in str(cell).split(',')], [] for an empty cell
    IF cell = NoCell THEN <<>>
    ELSE LET pieces == Split(cell, 0) IN [i \in 1..Len(pieces) |-> Strip(pieces[i])]

UpperOf ==
    [a |-> "A", b |-> "B", c |-> "C", d |-> "D", e |-> "E", f |-> "F", g |-> "G",
     h |-> "H", i |-> "I", j |-> "J", k |-> "K", l |-> "L", m |-> "M", n |-> "N",
     o |-> "O", p |-> "P", q |-> "Q", r |-> "R", s |-> "S", t |-> "T", u |-> "U",
     v |-> "V", w |-> "W", x |-> "X", y |-> "Y", z |-> "Z"]

RECURSIVE Upper(_)
\* str.upper()
Upper(s) ==
    IF s = "" THEN ""
    ELSE LET ch == SubSeq(s, 1, 1)
         IN (IF ch \in DOMAIN UpperOf THEN UpperOf[ch] ELSE ch) \o Upper(SubSeq(s, 2, Len(s)))

Store(d, e, key) ==
    \* d[e[key]] = e: a present key keeps its place and takes the new value
    IF \E i \in 1..Len(d) : d[i][key] = e[key]
    THEN [i \in 1..Len(d) |-> IF d[i][key] = e[key] THEN e ELSE d[i]]
    ELSE Append(d, e)

RECURSIVE StoreAll(_, _, _)
StoreAll(d, es, key) ==
    IF es = <<>> THEN d ELSE StoreAll(Store(d, Head(es), key), Tail(es), key)

OrGeneral(cell) == IF cell = NoCell THEN "General" ELSE cell

WrongYear(row) == generator.target_year # 0 /\ row.Year # generator.target_year

FilterBySpecialization ==
    generator.target_year \in {3, 4} /\ generator.target_specialization # ""

LoadedCourses(rows) ==
    LET keep(row) ==
            /\ ~WrongYear(row)
            /\ ~(FilterBySpecialization /\ row.Specialization # generator.target_specialization)
            /\ row.CourseCode # NoCell
        kept == SelectSeq(rows, keep)
        entry(row) ==
            [code |-> row.CourseCode, year |-> row.Year,
             specialization |-> OrGeneral(row.Specialization),
             lec_count |-> (row.LecSlots + 1) \div 2,
             tut_count |-> (row.TutSlots + 1) \div 2, tut_duration |-> row.TutSlots,
             lab_count |-> (row.LabSlots + 1) \div 2,
             is_graduation_project |->
                 row.CourseCode \in Range(GRADUATION_PROJECTS) /\ row.LecSlots = 8]
    IN StoreAll(<<>>, [i \in 1..Len(kept) |-> entry(kept[i])], "code")

LoadedSections(rows) ==
    LET keep(row) ==
            /\ ~WrongYear(row)
            /\ ~(FilterBySpecialization
                 /\ OrGeneral(row.DepartmentName) # generator.target_specialization)
        kept == SelectSeq(rows, keep)
    IN [i \in 1..Len(kept) |->
            [year |-> kept[i].Year, department |-> OrGeneral(kept[i].DepartmentName),
             group |-> kept[i].GroupNumber, section |-> kept[i].SectionNumber,
             students |-> kept[i].StudentNumber]]

RECURSIVE LoadedGroups(_, _)
\* self.groups: one entry per (year, department, group number), its sections
\* in row order and their head counts added up
LoadedGroups(secs, groups) ==
    IF secs = <<>> THEN groups
    ELSE LET s   == Head(secs)
             key == <<s.year, s.department, s.group>>
             old == IF \E i \in 1..Len(groups) : groups[i].key = key
                    THEN groups[CHOOSE i \in 1..Len(groups) : groups[i].key = key]
                    ELSE [key |-> key, year |-> s.year, department |-> s.department,
                          group_number |-> s.group, sections |-> <<>>,
                          total_students |-> 0]
             new == [old EXCEPT !.sections = Append(@, s),
                                !.total_students = @ + s.students]
         IN LoadedGroups(Tail(secs), Store(groups, new, "key"))

LoadedStaff(rows) ==
    StoreAll(<<>>, [i \in 1..Len(rows) |->
                        [id |-> rows[i].ID, qualified |-> Qualified(rows[i].QualifiedCourses)]],
             "id")

LoadedHalls(rows) ==
    StoreAll(<<>>, [i \in 1..Len(rows) |->
                        [id |-> rows[i].Building \o "_" \o rows[i].Space,
                         capacity |-> rows[i].Capacity, type |-> rows[i].Type,
                         is_phy_lab |-> /\ Contains(Upper(rows[i].Space), "PHY")
                                        /\ Contains(Upper(rows[i].Space), "LAB")]],
             "id")

LoadedSlots(rows) ==
    [i \in 1..Len(rows) |->
        [day |-> rows[i].Day, start |-> rows[i].StartTime, end |-> rows[i].EndTime]]

load_data ==
    [generator EXCEPT
        !.courses = LoadedCourses(workbooks.Courses),
        !.sections = LoadedSections(workbooks.Sections),
        !.groups = LoadedGroups(LoadedSections(workbooks.Sections), <<>>),
        !.instructors = LoadedStaff(workbooks.Instructor),
        !.tas = LoadedStaff(workbooks.TAs),
        !.halls = LoadedHalls(workbooks.Halls),
        !.timeslots = LoadedSlots(workbooks.TimeSlots)]

NoResult == CSPResult(FALSE, EmptyMap, 0, 0)

NoOracle == [phase |-> "idle"]

\* SolverThread's signals: progress(str) and finished(object)
Progress(message) == [signal |-> "progress", message |-> message]

Finished(r) == [signal |-> "finished", has_result |-> TRUE, result |-> r]

FinishedNone == [signal |-> "finished", has_result |-> FALSE]

NoRun == [ran |-> FALSE]

-----------------------------------------------------------------------------
(* The pipeline: SolverThread.run calls build_lecture_variables,           *)
(* build_domains and solve (= backtrack_search) in this order              *)

Init ==
    /\ \E cat \in Catalogs :
        /\ courses = cat.courses
        /\ instructors = cat.instructors
        /\ instructor_courses = cat.instructor_courses
        /\ rooms = cat.rooms
        /\ time_slots = cat.time_slots
    /\ variables = <<>>
    /\ domains = <<>>
    /\ pc = "constructed"
    /\ result = NoResult
    /\ doms = <<>>
    /\ assignments = EmptyMap
    /\ course_professor = EmptyMap
    /\ stack = <<>>
    /\ oracle = NoOracle
    /\ signals = <<>>
    /\ fault = "none"
    /\ first_run = NoRun
    /\ cancel_requested = FALSE
    /\ trail = <<>>
    /\ Elsewhere
BuildLectureVariables_NoClear ==
    \* the list is appended to without being cleared first
    /\ pc = "constructed"
    /\ variables' = variables \o build_lecture_variables
    /\ pc' = "variables_built"
    /\ fault # "variables"
    /\ signals' = Append(signals, Progress("Building variables..."))
    /\ UNCHANGED <<catalog, surroundings, trail, domains, result, doms, assignments,
                   course_professor, stack, oracle>>

BuildLectureVariables ==
    /\ pc = "constructed"
    /\ variables' = build_lecture_variables
    /\ pc' = "variables_built"
    /\ fault # "variables"
    /\ signals' = Append(signals, Progress("Building variables..."))
    /\ UNCHANGED <<catalog, surroundings, trail, domains, result, doms, assignments,
                   course_professor, stack, oracle>>

BuildDomains ==
    /\ pc = "variables_built"
    /\ domains' = build_domains
    /\ pc' = "domains_built"
    /\ fault # "domains"
    /\ signals' = Append(signals, Progress("Building domains..."))
    /\ UNCHANGED <<catalog, surroundings, trail, variables, result, doms, assignments,
                   course_professor, stack, oracle>>

HasEmptyDomain_FirstOnly ==
    \* only the first variable is looked at
    Len(variables) > 0 /\ domains[1] = <<>>

HasEmptyDomain == \E i \in 1..Len(variables) : domains[i] = <<>>

EmptyDomainReturn ==
    \* the pre-check finds an empty domain: failure with one hard violation
    /\ pc = "domains_built"
    /\ HasEmptyDomain
    /\ result' = CSPResult(FALSE, EmptyMap, 1, 0)
    /\ pc' = "done"
    /\ signals' = signals \o <<Progress("Solving CSP..."), Finished(result')>>
    /\ UNCHANGED <<catalog, surroundings, trail, variables, domains, doms, assignments,
                   course_professor, stack, oracle>>

BeginSearch ==
    \* the working state is created and dfs() is called
    /\ pc = "domains_built"
    /\ ~HasEmptyDomain
    /\ result' = CSPResult(FALSE, EmptyMap, 0, 0)
    /\ doms' = domains
    /\ assignments' = EmptyMap
    /\ course_professor' = EmptyMap
    /\ stack' = <<EnterFrame>>
    /\ trail' = <<>>
    /\ pc' = "dfs"
    /\ signals' = Append(signals, Progress("Solving CSP..."))
    /\ UNCHANGED <<catalog, surroundings, variables, domains, oracle>>

Complete_OffByOne == Cardinality(DOMAIN assignments) + 1 >= Len(variables)

Complete == Cardinality(DOMAIN assignments) = Len(variables)

DfsSuccess ==
    \* the frame finds every variable assigned: the result is filled in and
    \* True is returned through every caller
    /\ pc = "dfs"
    /\ Top.phase = "enter"
    /\ Complete
    /\ result' = CSPResult(TRUE, assignments, 0, compute_soft_cost(assignments))
    /\ stack' = <<>>
    /\ trail' = <<>>
    /\ pc' = "done"
    /\ signals' = Append(signals, Finished(result'))
    /\ UNCHANGED <<catalog, surroundings, variables, domains, doms, assignments,
                   course_professor, oracle>>

DfsChoose ==
    \* MRV selection, snapshot of the chosen domain
    /\ pc = "dfs"
    /\ Top.phase = "enter"
    /\ ~Complete
    /\ LET chosen == MRVChoice(assignments, doms)
       IN stack' = SetTop(IF chosen = 0 THEN Frame("return", 0, <<>>, 0, <<>>)
                          ELSE Frame("loop", chosen, doms[chosen], 1, <<>>))
    /\ UNCHANGED <<catalog, surroundings, trail, signals, variables, domains, pc, result, doms, assignments,
                   course_professor, oracle>>

DfsTry ==
    \* one iteration of the for loop over domain_copy up to the test
    \* "not any_empty and dfs()": the candidate is skipped, or committed and
    \* forward-checked, and then dfs() is called unless a domain was wiped out
    /\ pc = "dfs"
    /\ Top.phase = "loop"
    /\ Top.k <= Len(Top.domain_copy)
    /\ LET v   == variables[Top.chosen]
           val == Top.domain_copy[Top.k]
       IN IF \/ ProfessorMismatch(v, val, course_professor)
             \/ ConflictsWithAssigned(v, val, assignments)
          THEN /\ stack' = SetTop([Top EXCEPT !.k = @ + 1])
               /\ UNCHANGED <<doms, assignments, course_professor, trail>>
          ELSE LET asg1    == MapPut(assignments, v.var_id, val)
                   cp1     == CommitProfessor(v, val, course_professor)
                   ds1     == ForwardCheck(v, val, asg1, cp1, doms)
                   changed == ChangedLog(doms, ds1)
               IN /\ assignments' = asg1
                  /\ course_professor' = cp1
                  /\ doms' = ds1
                  /\ trail' = Append(trail, WorkingState)
                  /\ stack' =
                        IF AnyEmpty(asg1, ds1)
                        THEN SetTop([Top EXCEPT !.phase = "wiped", !.changed = changed])
                        ELSE Append(SetTop([Top EXCEPT !.phase = "call",
                                                       !.changed = changed]),
                                    EnterFrame)
    /\ UNCHANGED <<catalog, surroundings, signals, variables, domains, pc, result, oracle>>

Undo(frame) ==
    \* the end of an iteration whose candidate failed: restore the domains
    \* from the undo log, delete the assignment, roll course_professor back
    LET v    == variables[frame.chosen]
        asg1 == MapDel(assignments, v.var_id)
    IN /\ doms' = RestoreDomains(doms, frame.changed)
       /\ assignments' = asg1
       /\ course_professor' = RollbackProfessor(v, asg1, course_professor)
       /\ trail' = SubSeq(trail, 1, Len(trail) - 1)

DfsRestoreWiped ==
    \* forward checking emptied a domain: the candidate is undone without a
    \* recursive call and the loop goes on
    /\ pc = "dfs"
    /\ Top.phase = "wiped"
    /\ Undo(Top)
    /\ stack' = SetTop([Top EXCEPT !.phase = "loop", !.k = @ + 1, !.changed = <<>>])
    /\ UNCHANGED <<catalog, surroundings, signals, variables, domains, pc, result, oracle>>
Returning_AfterFirstCandidate ==
    \* "return False" inside the for loop: the frame gives up after its
    \* first candidate
    /\ pc = "dfs"
    /\ \/ Top.phase = "return"
       \/ Top.phase = "loop" /\ Top.k > 1

Returning ==
    \* the innermost frame is about to return False
    /\ pc = "dfs"
    /\ \/ Top.phase = "return"
       \/ Top.phase = "loop" /\ Top.k > Len(Top.domain_copy)

DfsBacktrack ==
    \* a recursive call returned False: the caller undoes its candidate and
    \* goes on with the next one
    /\ Returning
    /\ Len(stack) > 1
    /\ Undo(stack[Len(stack) - 1])
    /\ stack' = Append(SubSeq(stack, 1, Len(stack) - 2),
                       [stack[Len(stack) - 1] EXCEPT !.phase = "loop", !.k = @ + 1,
                                                     !.changed = <<>>])
    /\ UNCHANGED <<catalog, surroundings, signals, variables, domains, pc, result, oracle>>

SearchFailed ==
    \* the outermost dfs() returned False
    /\ Returning
    /\ Len(stack) = 1
    /\ result' = [result EXCEPT !.success = FALSE]
    /\ stack' = <<>>
    /\ pc' = "done"
    /\ signals' = Append(signals, Finished(result'))
    /\ UNCHANGED <<catalog, surroundings, trail, variables, domains, doms, assignments,
                   course_professor, oracle>>

Next ==
    \/ BuildLectureVariables
    \/ BuildDomains
    \/ EmptyDomainReturn
    \/ BeginSearch
    \/ DfsSuccess
    \/ DfsChoose
    \/ DfsTry
    \/ DfsRestoreWiped
    \/ DfsBacktrack
    \/ SearchFailed

Spec == Init /\ [][Next]_vars

-----------------------------------------------------------------------------
(* SolverThread.run around the pipeline: exceptions, a second run on the   *)
(* same CSPSolver, a request to stop                                       *)
SolverOn(cats) ==
    \* a CSPSolver just constructed on one of the catalogs cats
    /\ \E cat \in cats :
        /\ courses = cat.courses
        /\ instructors = cat.instructors
        /\ instructor_courses = cat.instructor_courses
        /\ rooms = cat.rooms
        /\ time_slots = cat.time_slots
    /\ variables = <<>>
    /\ domains = <<>>
    /\ pc = "constructed"
    /\ result = NoResult
    /\ doms = <<>>
    /\ assignments = EmptyMap
    /\ course_professor = EmptyMap
    /\ stack = <<>>
    /\ oracle = NoOracle
    /\ signals = <<>>
    /\ fault = "none"
    /\ first_run = NoRun
    /\ cancel_requested = FALSE
    /\ trail = <<>>

ConstructedOn(cats) == SolverOn(cats) /\ Elsewhere

\* course ids that hold the text "_Y" themselves, next to ids that do not
PrefixCatalogs ==
    { Catalog(cs, <<Instructor("P1", "Professor", ""), Instructor("P2", "Professor", "")>>,
              <<>>, <<Room("R1", "Classroom"), Room("R2", "Classroom")>>, tss) :
        cs \in { <<Course("CS4", 4, "AID", FALSE, FALSE), Course("CS4_YR", 4, "BIF", FALSE, FALSE)>>,
                 <<Course("CS4_YA", 4, "AID", FALSE, FALSE), Course("CS4_YB", 4, "AID", FALSE, FALSE)>>,
                 <<Course("CS4_YA", 4, "AID", TRUE, FALSE)>> },
        tss \in { <<Sun1, Sun2>>, <<Sun2, Mon1>>, <<Mon1, Sun1, Sun2>> } }

CostCatalogs == Catalogs \cup PrefixCatalogs

InitCost == ConstructedOn(CostCatalogs)

SpecCost == InitCost /\ [][Next]_vars

Phases == {"variables", "domains", "solve"}

\* the exception's text is not modelled: one message per phase
ErrorMessage == "Error: " \o fault
Raise_NoCompletion ==
    \* the except branch reports the error and emits no finished signal
    /\ \/ /\ pc = "constructed" /\ fault = "variables"
          /\ variables' = <<>>
          /\ signals' = signals \o <<Progress("Building variables..."),
                                     Progress(ErrorMessage)>>
          /\ UNCHANGED <<domains, stack>>
       \/ /\ pc = "variables_built" /\ fault = "domains"
          /\ domains' = [vi \in 1..Len(variables) |-> <<>>]
          /\ signals' = signals \o <<Progress("Building domains..."),
                                     Progress(ErrorMessage)>>
          /\ UNCHANGED <<variables, stack>>
       \/ /\ pc = "dfs" /\ fault = "solve"
          /\ stack' = <<>>
          /\ signals' = signals \o <<Progress(ErrorMessage)>>
          /\ UNCHANGED <<variables, domains>>
    /\ pc' = "failed"
    /\ UNCHANGED <<catalog, surroundings, trail, result, doms, assignments,
                   course_professor, oracle>>

Raise ==
    \* the phase raises (a NULL Year or StartMin read from the database, the
    \* recursion limit in dfs): run() reports the error as a progress
    \* message and completes without a result
    /\ \/ /\ pc = "constructed" /\ fault = "variables"
          \* self.variables.clear() has run
          /\ variables' = <<>>
          /\ signals' = signals \o <<Progress("Building variables..."),
                                     Progress(ErrorMessage), FinishedNone>>
          /\ UNCHANGED <<domains, stack>>
       \/ /\ pc = "variables_built" /\ fault = "domains"
          \* self.domains = [[] for _ in self.variables] has run
          /\ domains' = [vi \in 1..Len(variables) |-> <<>>]
          /\ signals' = signals \o <<Progress("Building domains..."),
                                     Progress(ErrorMessage), FinishedNone>>
          /\ UNCHANGED <<variables, stack>>
       \/ /\ pc = "dfs" /\ fault = "solve"
          /\ stack' = <<>>
          /\ signals' = signals \o <<Progress(ErrorMessage), FinishedNone>>
          /\ UNCHANGED <<variables, domains>>
    /\ pc' = "failed"
    /\ UNCHANGED <<catalog, surroundings, trail, result, doms, assignments,
                   course_professor, oracle>>

InitThread ==
    /\ \E cat \in Catalogs :
        /\ courses = cat.courses
        /\ instructors = cat.instructors
        /\ instructor_courses = cat.instructor_courses
        /\ rooms = cat.rooms
        /\ time_slots = cat.time_slots
    /\ variables = <<>>
    /\ domains = <<>>
    /\ pc = "constructed"
    /\ result = NoResult
    /\ doms = <<>>
    /\ assignments = EmptyMap
    /\ course_professor = EmptyMap
    /\ stack = <<>>
    /\ oracle = NoOracle
    /\ signals = <<>>
    /\ fault \in Phases \cup {"none"}
    /\ first_run = NoRun
    /\ cancel_requested = FALSE
    /\ trail = <<>>
    /\ Elsewhere

NextThread == Next \/ Raise

SpecThread == InitThread /\ [][NextThread]_vars

Rerun ==
    \* SolverTab.solve starts a new SolverThread on the CSPSolver an earlier
    \* run has used: nothing of the solver is reset
    /\ pc = "done"
    /\ ~first_run.ran
    /\ first_run' = [ran |-> TRUE, variables |-> variables, domains |-> domains,
                     result |-> result]
    /\ signals' = <<>>
    /\ pc' = "constructed"
    /\ UNCHANGED <<elsewhere, trail, catalog, fault, cancel_requested, variables, domains, result,
                   doms, assignments, course_professor, stack, oracle>>

NextTwice == Next \/ Rerun

SpecTwice == Init /\ [][NextTwice]_vars

RemoveAt(s, k) == SubSeq(s, 1, k - 1) \o SubSeq(s, k + 1, Len(s))

SolveWithoutSlot ==
    \* the instance is solved again with one time slot removed, everything
    \* else unchanged: a new CSPSolver is constructed on the shorter list
    /\ pc = "done"
    /\ ~first_run.ran
    /\ \E k \in 1..Len(time_slots) : time_slots' = RemoveAt(time_slots, k)
    /\ first_run' = [ran |-> TRUE, variables |-> variables, domains |-> domains,
                     result |-> result]
    /\ variables' = <<>>
    /\ domains' = <<>>
    /\ result' = NoResult
    /\ doms' = <<>>
    /\ assignments' = EmptyMap
    /\ course_professor' = EmptyMap
    /\ signals' = <<>>
    /\ pc' = "constructed"
    /\ UNCHANGED <<elsewhere, trail, courses, instructors, instructor_courses, rooms, fault,
                   cancel_requested, stack, oracle>>

\* two lectures, the first slot of the list overlapping the other two
OverlapCatalog ==
    Catalog(<<Course("CS401", 4, "AID", FALSE, FALSE), Course("CS403", 4, "BIF", FALSE, FALSE)>>,
            <<Instructor("P1", "Professor", "")>>, <<>>, <<Room("R1", "Classroom")>>,
            <<SunMid, Sun1, Sun2>>)

\* the catalogs whose searches stay short with a slot fewer: those without
\* the nine labs of a year 1-2 course
SlotCatalogs ==
    SpecializationCatalogs \cup {OverlapCatalog}
    \cup {cat \in CohortCatalogs :
            \A i \in 1..Len(cat.courses) :
                ~(cat.courses[i].has_lab /\ cat.courses[i].year \in {1, 2})}

InitSlots ==
    /\ \E cat \in SlotCatalogs :
        /\ courses = cat.courses
        /\ instructors = cat.instructors
        /\ instructor_courses = cat.instructor_courses
        /\ rooms = cat.rooms
        /\ time_slots = cat.time_slots
    /\ variables = <<>>
    /\ domains = <<>>
    /\ pc = "constructed"
    /\ result = NoResult
    /\ doms = <<>>
    /\ assignments = EmptyMap
    /\ course_professor = EmptyMap
    /\ stack = <<>>
    /\ oracle = NoOracle
    /\ signals = <<>>
    /\ fault = "none"
    /\ first_run = NoRun
    /\ cancel_requested = FALSE
    /\ trail = <<>>
    /\ Elsewhere

NextSlots == Next \/ SolveWithoutSlot

SpecSlots == InitSlots /\ [][NextSlots]_vars
-----------------------------------------------------------------------------
(* CSITTimetableGenerator: create_variables, add_hard_constraints and      *)
(* solve.  A slot id is the 0-based position of the slot in               *)
(* self.timeslots; a Boolean variable is the position of its entry in the *)
(* list of all entries of self.session_vars, taken in course order.       *)

\* the CSP state, which the widgets do not touch
solver_state ==
    <<catalog, variables, domains, pc, result, doms, assignments, course_professor,
      stack, oracle, signals, fault, first_run, cancel_requested, trail>>

get_groups_for_course(c) ==
    SelectSeq(generator.groups, LAMBDA g :
        /\ g.year = c.year
        /\ (c.specialization = "General" \/ g.department = c.specialization))

get_sections_for_course(c) ==
    SelectSeq(generator.sections, LAMBDA s :
        /\ s.year = c.year
        /\ (c.specialization = "General" \/ s.department = c.specialization))

IdsOf(staff) == [i \in 1..Len(staff) |-> staff[i].id]

get_instructors_for_course(course_code) ==
    IdsOf(SelectSeq(generator.instructors, LAMBDA info :
        course_code \in Range(info.qualified)))

get_tas_for_course(course_code, role) ==
    IdsOf(SelectSeq(generator.tas, LAMBDA info :
        \E q \in Range(info.qualified) : Contains(q, course_code) /\ Contains(q, role)))

get_suitable_halls(session_type, student_count, course_code) ==
    LET is_phy_lab == course_code = "PHY113" /\ session_type = "LAB"
    IN IdsOf(SelectSeq(generator.halls, LAMBDA info :
        /\ info.is_phy_lab = is_phy_lab
        /\ ~(session_type = "LAB" /\ info.type # "Lab")
        /\ ~(session_type \in {"LEC", "TUT"} /\ info.type = "Lab")
        \* info['capacity'] >= student_count * 0.8
        /\ info.capacity * 10 >= student_count * 8))

\* slot ids are the 0-based positions in self.timeslots
is_consecutive_slot(slot1_id, slot2_id) ==
    IF slot1_id >= Len(generator.timeslots) \/ slot2_id >= Len(generator.timeslots)
    THEN FALSE
    ELSE LET slot1 == generator.timeslots[slot1_id + 1]
             slot2 == generator.timeslots[slot2_id + 1]
         IN slot1.day = slot2.day /\ slot1.end = slot2.start

RECURSIVE FirstOccurrences(_)
\* the keys of a dict filled in the order of s
FirstOccurrences(s) ==
    IF s = <<>> THEN <<>>
    ELSE LET init == FirstOccurrences(SubSeq(s, 1, Len(s) - 1))
         IN IF s[Len(s)] \in Range(init) THEN init ELSE Append(init, s[Len(s)])

get_full_day_slots ==
    LET days == FirstOccurrences([i \in 1..Len(generator.timeslots) |->
                                     generator.timeslots[i].day])
        slot_ids(day) == SelectSeq([i \in 1..Len(generator.timeslots) |-> i - 1],
                                   LAMBDA i : generator.timeslots[i + 1].day = day)
        full(day) == /\ Len(slot_ids(day)) >= 8
                     /\ \A i \in 1..7 :
                            is_consecutive_slot(slot_ids(day)[i], slot_ids(day)[i + 1])
        fulldays == SelectSeq(days, full)
    IN [n \in 1..Len(fulldays) |->
            [start_slot |-> slot_ids(fulldays[n])[1],
             slot_list |-> SubSeq(slot_ids(fulldays[n]), 1, 8),
             day |-> fulldays[n]]]

\* one entry of self.session_vars; var is its position in the list of all
\* entries.  A key the code leaves out is "" (group, section), -1 (slot2)
\* or <<>> (sections_in_group, slot_list)
SessionVar(type, course, group, section, sections_in_group, session_num, slot, slot2, slot_list, hall, instructor, is_ta) ==
    [type |-> type, course |-> course, group |-> group, section |-> section,
     sections_in_group |-> sections_in_group, session_num |-> session_num,
     slot |-> slot, slot2 |-> slot2, slot_list |-> slot_list, hall |-> hall,
     instructor |-> instructor, is_ta |-> is_ta]

GroupId(group) == "Y" \o ToString(group.year) \o "_G" \o ToString(group.group_number)

SectionId(section) ==
    "Y" \o ToString(section.year) \o "_G" \o ToString(section.group)
        \o "_S" \o ToString(section.section)

SectionsInGroup(group) ==
    [k \in 1..Len(group.sections) |->
        "Y" \o ToString(group.year) \o "_G" \o ToString(group.group_number)
            \o "_S" \o ToString(group.sections[k].section)]

\* range(len(self.timeslots) - 1) filtered by is_consecutive_slot(slot_id, slot_id + 1)
PairStarts ==
    SelectSeq([i \in 1..(Len(generator.timeslots) - 1) |-> i - 1],
              LAMBDA slot_id : is_consecutive_slot(slot_id, slot_id + 1))

AllStarts == [i \in 1..Len(generator.timeslots) |-> i - 1]

\* the three nested for loops: slots outermost, staff innermost
Choices(slots, halls, staff) ==
    Concat([a \in 1..Len(slots) |->
        Concat([b \in 1..Len(halls) |->
            [c \in 1..Len(staff) |-> <<slots[a], halls[b], staff[c]>>]])])
GradProjectVars(c) ==
    LET instrs == get_instructors_for_course(c.code)
        groups == get_groups_for_course(c)
        full_day_slots == get_full_day_slots
    IN IF instrs = <<>> \/ groups = <<>> \/ full_day_slots = <<>> THEN <<>>
       ELSE Concat([gi \in 1..Len(groups) |->
                LET group == groups[gi]
                    Make(fd, hall, instructor) ==
                        SessionVar("GRAD_PROJECT", c.code, GroupId(group), "",
                                   SectionsInGroup(group), 0, fd.start_slot, -1,
                                   fd.slot_list, hall, instructor, FALSE)
                IN LET ch == Choices(full_day_slots,
                           get_suitable_halls("LEC", group.total_students, c.code),
                           instrs)
                       IN [k \in 1..Len(ch) |-> Make(ch[k][1], ch[k][2], ch[k][3])]])

LectureVars(c) ==
    LET instrs == get_instructors_for_course(c.code)
        groups == get_groups_for_course(c)
    IN IF instrs = <<>> \/ groups = <<>> THEN <<>>
       ELSE Concat([gi \in 1..Len(groups) |->
                Concat([n \in 1..c.lec_count |->
                    LET group == groups[gi]
                        Make(slot_id, hall, instructor) ==
                            SessionVar("LEC", c.code, GroupId(group), "",
                                       SectionsInGroup(group), n - 1, slot_id,
                                       slot_id + 1, <<>>, hall, instructor, FALSE)
                    IN LET ch == Choices(PairStarts,
                               get_suitable_halls("LEC", group.total_students, c.code),
                               instrs)
                       IN [k \in 1..Len(ch) |-> Make(ch[k][1], ch[k][2], ch[k][3])]])])

TutorialVars(c) ==
    LET tas == get_tas_for_course(c.code, "TUT")
        sections == get_sections_for_course(c)
        \* tut_duration >= 1.0, in halves of a slot
        needs_double_slot == c.tut_duration >= 2
    IN IF c.tut_count = 0 \/ tas = <<>> \/ sections = <<>> THEN <<>>
       ELSE Concat([si \in 1..Len(sections) |->
                Concat([n \in 1..c.tut_count |->
                    LET section == sections[si]
                        Make(slot_id, hall, ta) ==
                            SessionVar("TUT", c.code, "", SectionId(section), <<>>,
                                       n - 1, slot_id,
                                       IF needs_double_slot THEN slot_id + 1 ELSE -1,
                                       <<>>, hall, ta, TRUE)
                    IN LET ch == Choices(IF needs_double_slot THEN PairStarts ELSE AllStarts,
                               get_suitable_halls("TUT", section.students, c.code),
                               tas)
                       IN [k \in 1..Len(ch) |-> Make(ch[k][1], ch[k][2], ch[k][3])]])])

LabVars(c) ==
    LET tas == get_tas_for_course(c.code, "LAB")
        groups == get_groups_for_course(c)
        sections == get_sections_for_course(c)
    IN IF c.lab_count = 0 \/ tas = <<>> THEN <<>>
       ELSE IF c.code = "PHY113"
       THEN Concat([gi \in 1..Len(groups) |->
                Concat([n \in 1..c.lab_count |->
                    LET group == groups[gi]
                        Make(slot_id, hall, ta) ==
                            SessionVar("LAB", c.code, GroupId(group), "",
                                       SectionsInGroup(group), n - 1, slot_id,
                                       slot_id + 1, <<>>, hall, ta, TRUE)
                    IN LET ch == Choices(PairStarts,
                               get_suitable_halls("LAB", group.total_students, c.code),
                               tas)
                       IN [k \in 1..Len(ch) |-> Make(ch[k][1], ch[k][2], ch[k][3])]])])
       ELSE Concat([si \in 1..Len(sections) |->
                Concat([n \in 1..c.lab_count |->
                    LET section == sections[si]
                        Make(slot_id, hall, ta) ==
                            SessionVar("LAB", c.code, "", SectionId(section), <<>>,
                                       n - 1, slot_id, slot_id + 1, <<>>, hall, ta, TRUE)
                    IN LET ch == Choices(PairStarts,
                               get_suitable_halls("LAB", section.students, c.code),
                               tas)
                       IN [k \in 1..Len(ch) |-> Make(ch[k][1], ch[k][2], ch[k][3])]])])

create_variables ==
    Concat([ci \in 1..Len(generator.courses) |->
        LET c == generator.courses[ci]
        IN (IF c.is_graduation_project THEN GradProjectVars(c)
            ELSE IF c.lec_count > 0 THEN LectureVars(c)
            ELSE <<>>)
           \o TutorialVars(c) \o LabVars(c)])

OfGroup(s) ==
    \/ s.type \in {"GRAD_PROJECT", "LEC"}
    \/ s.type = "LAB" /\ s.course = "PHY113"

\* the slots a selected entry occupies
Occupied(s) ==
    IF s.type = "GRAD_PROJECT" THEN s.slot_list
    ELSE IF s.slot2 # -1 THEN <<s.slot, s.slot2>>
    ELSE <<s.slot>>

Entries == Range(generator.session_vars)

\* the vars of the entries that satisfy P, in the order of the entries
VarsWhere(P) ==
    SelectSeq([i \in 1..Len(generator.session_vars) |-> i],
              LAMBDA i : P[generator.session_vars[i]])

Identifier(s) ==
    <<s.course, IF OfGroup(s) THEN s.group ELSE s.section, s.type,
      IF s.type = "GRAD_PROJECT" THEN 0 ELSE s.session_num>>

ExactlyOnce ==
    \* 1. model.Add(sum(vars_list) == 1) per course and identifier
    {[kind |-> "== 1", vars |-> VarsWhere([s \in Entries |-> Identifier(s) = key])] :
        key \in {Identifier(s) : s \in Entries}}

AtMostOne(lists) ==
    \* model.Add(sum(vars_list) <= 1) for the lists of more than one var
    {[kind |-> "<= 1", vars |-> vars_list] :
        vars_list \in {l \in lists : Len(l) > 1}}

SlotsInUse == UNION {Range(Occupied(s)) : s \in Entries}

NoRoomConflicts_FirstSlotOnly ==
    \* only the first slot of an entry is marked as occupied
    AtMostOne({VarsWhere([s \in Entries |-> s.hall = hall /\ slot = Occupied(s)[1]]) :
                <<hall, slot>> \in {s.hall : s \in Entries} \X SlotsInUse})

NoRoomConflicts ==
    \* 2. sessions_by_hall_slot
    AtMostOne({VarsWhere([s \in Entries |-> s.hall = hall /\ slot \in Range(Occupied(s))]) :
                <<hall, slot>> \in {s.hall : s \in Entries} \X SlotsInUse})

NoStaffConflicts ==
    \* 3. sessions_by_instructor_slot
    AtMostOne({VarsWhere([s \in Entries |->
                             s.instructor = staff /\ slot \in Range(Occupied(s))]) :
                <<staff, slot>> \in {s.instructor : s \in Entries} \X SlotsInUse})

affects_section(s, section_id) ==
    IF OfGroup(s) THEN section_id \in Range(s.sections_in_group)
    ELSE s.section = section_id

SectionIds == {SectionId(generator.sections[k]) : k \in 1..Len(generator.sections)}

NoStudentConflicts_OwnSessionsOnly ==
    \* the sessions of the group are not counted for its sections
    AtMostOne({VarsWhere([s \in Entries |-> /\ ~OfGroup(s) /\ s.section = section_id
                                             /\ slot \in Range(Occupied(s))]) :
                <<section_id, slot>> \in SectionIds \X SlotsInUse})

NoStudentConflicts ==
    \* 4. sessions_by_slot of every section
    AtMostOne({VarsWhere([s \in Entries |-> /\ affects_section(s, section_id)
                                             /\ slot \in Range(Occupied(s))]) :
                <<section_id, slot>> \in SectionIds \X SlotsInUse})

add_hard_constraints ==
    ExactlyOnce \cup NoRoomConflicts \cup NoStaffConflicts \cup NoStudentConflicts

\* sum(vars_list) under the selection sel of vars set to true
Sum(vars_list, sel) == Cardinality({k \in 1..Len(vars_list) : vars_list[k] \in sel})

Satisfies(sel) ==
    \A c \in generator.model :
        IF c.kind = "== 1" THEN Sum(c.vars, sel) = 1 ELSE Sum(c.vars, sel) <= 1

Selections == SUBSET (1..Len(generator.session_vars))

LoadData ==
    \* generate(): load_data(); without courses an empty timetable is written
    \* and generate returns
    /\ generator.pc = "constructed"
    /\ generator' = [load_data EXCEPT
                        !.pc = IF load_data.courses = <<>> THEN "empty" ELSE "loaded"]
    /\ UNCHANGED <<solver_state, workbooks, tab, workers, events>>

CreateVariables ==
    /\ generator.pc = "loaded"
    /\ generator' = [generator EXCEPT !.session_vars = create_variables,
                                      !.pc = "variables"]
    /\ UNCHANGED <<solver_state, workbooks, tab, workers, events>>

AddHardConstraints ==
    /\ generator.pc = "variables"
    /\ generator' = [generator EXCEPT !.model = add_hard_constraints,
                                      !.pc = "constrained"]
    /\ UNCHANGED <<solver_state, workbooks, tab, workers, events>>

Solve ==
    \* solve(): CP-SAT reports OPTIMAL or FEASIBLE with some assignment that
    \* satisfies the model, or no solution when there is none (the instances
    \* are far below the 1800 s limit)
    /\ generator.pc = "constrained"
    /\ IF \E sel \in Selections : Satisfies(sel)
       THEN \E sel \in Selections :
                /\ Satisfies(sel)
                /\ generator' = [generator EXCEPT !.selected = sel, !.success = TRUE,
                                                  !.pc = "solved"]
       ELSE generator' = [generator EXCEPT !.success = FALSE, !.pc = "solved"]
    /\ UNCHANGED <<solver_state, workbooks, tab, workers, events>>

NextGenerator == LoadData \/ CreateVariables \/ AddHardConstraints \/ Solve

\* the time slots of one day, hour by hour from 9
HourlySlots(day, n) == [i \in 1..n |-> SlotRow(day, 8 + i, 9 + i)]

\* one lecture and a single-slot tutorial of one section
SmallBook ==
    Workbooks(<<CourseRow("CS101", 1, NoCell, 2, 1, 0)>>,
              <<SectionRow(1, NoCell, 1, 1, 30)>>,
              <<StaffRow("I1", "CS101")>>,
              <<StaffRow("T1", "CS101 TUT")>>,
              <<HallRow("B1", "H1", 40, "Hall")>>,
              HourlySlots("Sun", 3))

\* two sections, whose tutorials do not fit beside the lecture
TightBook == [SmallBook EXCEPT !.Sections = Append(@, SectionRow(1, NoCell, 1, 2, 10))]

\* nobody is qualified to lecture CS101; its tutorial takes a pair of slots
NoLecturerBook ==
    [SmallBook EXCEPT !.Courses = <<CourseRow("CS101", 1, NoCell, 2, 2, 0)>>,
                      !.Instructor = <<StaffRow("I1", "CS102")>>]

\* the only hall is too small for the group
NoHallBook == [SmallBook EXCEPT !.Sections = <<SectionRow(1, NoCell, 1, 1, 60)>>]

\* a graduation project and a lecture of the same group and instructor
ProjectBook ==
    Workbooks(<<CourseRow("CSC413", 4, "CS", 8, 0, 0), CourseRow("CS401", 4, "CS", 2, 0, 0)>>,
              <<SectionRow(4, "CS", 1, 1, 20)>>,
              <<StaffRow("I1", "CSC413, CS401")>>,
              <<>>,
              <<HallRow("B1", "H1", 40, "Hall")>>,
              HourlySlots("Sun", 8) \o HourlySlots("Mon", 2))

\* a physics lab of the group and a lab of its section, in two labs with two TAs
LabBook ==
    Workbooks(<<CourseRow("PHY113", 1, NoCell, 0, 0, 2), CourseRow("CS101", 1, NoCell, 0, 0, 2)>>,
              <<SectionRow(1, NoCell, 1, 1, 20)>>,
              <<>>,
              <<StaffRow("T1", "PHY113 LAB"), StaffRow("T2", "CS101 LAB")>>,
              <<HallRow("B1", "Phy Lab", 30, "Lab"), HallRow("B1", "Lab 1", 30, "Lab")>>,
              HourlySlots("Sun", 4))

\* the lectures of two years in one hall
TwoYearsBook ==
    Workbooks(<<CourseRow("CS101", 1, NoCell, 2, 0, 0), CourseRow("CS301", 3, "CS", 2, 0, 0)>>,
              <<SectionRow(1, NoCell, 1, 1, 30), SectionRow(3, "CS", 1, 1, 30)>>,
              <<StaffRow("I1", "CS101"), StaffRow("I2", "CS301")>>,
              <<>>,
              <<HallRow("B1", "H1", 40, "Hall")>>,
              HourlySlots("Sun", 4))

\* two departments of year 3 that both number their groups from 1
TwoDepartmentsBook ==
    Workbooks(<<CourseRow("MTH301", 3, NoCell, 2, 0, 0), CourseRow(NoCell, 3, "CS", 2, 0, 0)>>,
              <<SectionRow(3, "CS", 1, 1, 20), SectionRow(3, "AI", 1, 1, 20)>>,
              <<StaffRow("I1", "MTH301")>>,
              <<>>,
              <<HallRow("B1", "H1", 40, "Hall"), HallRow("B1", "H2", 40, "Hall")>>,
              HourlySlots("Sun", 4))

Shelf ==
    {SmallBook, TightBook, NoLecturerBook, NoHallBook, ProjectBook, LabBook,
     TwoYearsBook, TwoDepartmentsBook}

\* CSITTimetableGenerator(target_year, target_specialization)
Targets == {<<0, "">>, <<1, "">>, <<3, "CS">>, <<3, "AI">>, <<4, "CS">>}

InitGenerator ==
    /\ SolverOn({OverlapCatalog})
    /\ workbooks \in Shelf
    /\ \E t \in Targets : generator = NewGenerator(t[1], t[2])
    /\ tab = NewSolverTab
    /\ workers = <<>>
    /\ events = <<>>

SpecGenerator == InitGenerator /\ [][NextGenerator]_vars

-----------------------------------------------------------------------------
(* SolverTab and its SolverThread workers (src/gui/main_window.py).  The   *)
(* GUI thread runs one handler at a time; a click reaches its handler only *)
(* while the button is enabled; the signals of a worker are queued to the  *)
(* GUI thread in the order they were emitted.                              *)

MaxLoads == 2
MaxSolves == 2

ProgressTexts == <<"Building variables...", "Building domains...", "Solving CSP...">>

Running(w) == workers[w].state = "running"

ClickLoadDatabase ==
    \* load_database: the dialog is cancelled or the database fails to load
    \* (nothing changes), or a new CSPSolver (the objects are numbered in the
    \* order of their construction, 0 is None) replaces self.solver and Solve
    \* is enabled
    /\ tab.load_btn
    /\ tab.solver < MaxLoads
    /\ \E loaded \in BOOLEAN :
            tab' = IF loaded
                   THEN [tab EXCEPT !.solver = @ + 1, !.solve_btn = TRUE]
                   ELSE tab
    /\ UNCHANGED <<solver_state, workbooks, generator, workers, events>>

ClickSolve_LoadStaysEnabled ==
    \* Load Database is not disabled when the solve starts
    /\ tab.solve_btn
    /\ Len(workers) < MaxSolves
    /\ IF tab.solver = 0
       THEN UNCHANGED <<tab, workers>>
       ELSE /\ workers' = Append(workers, [solver |-> tab.solver, step |-> 0,
                                           state |-> "running"])
            /\ tab' = [tab EXCEPT !.solve_btn = FALSE,
                                  !.solver_thread = Len(workers) + 1]
    /\ UNCHANGED <<solver_state, workbooks, generator, events>>

ClickSolve ==
    \* solve: both buttons are disabled, a SolverThread is created on
    \* self.solver and started
    /\ tab.solve_btn
    /\ Len(workers) < MaxSolves
    /\ IF tab.solver = 0
       THEN UNCHANGED <<tab, workers>>
       ELSE /\ workers' = Append(workers, [solver |-> tab.solver, step |-> 0,
                                           state |-> "running"])
            /\ tab' = [tab EXCEPT !.solve_btn = FALSE, !.load_btn = FALSE,
                                  !.solver_thread = Len(workers) + 1]
    /\ UNCHANGED <<solver_state, workbooks, generator, events>>

WorkerProgress(w) ==
    \* SolverThread.run: the next phase is announced and carried out
    /\ Running(w)
    /\ workers[w].step < Len(ProgressTexts)
    /\ events' = Append(events, Progress(ProgressTexts[workers[w].step + 1]))
    /\ workers' = [workers EXCEPT ![w].step = @ + 1]
    /\ UNCHANGED <<solver_state, workbooks, generator, tab>>

WorkerFinish(w) ==
    \* SolverThread.run: solve() has returned, finished(result) is emitted
    /\ Running(w)
    /\ workers[w].step = Len(ProgressTexts)
    /\ \E success \in BOOLEAN :
            events' = Append(events, Finished(CSPResult(success, EmptyMap, 0, 0)))
    /\ workers' = [workers EXCEPT ![w].state = "finished"]
    /\ UNCHANGED <<solver_state, workbooks, generator, tab>>

WorkerRaise(w) ==
    \* SolverThread.run: the phase announced last raises; the except branch
    \* emits the error text and finished(None)
    /\ Running(w)
    /\ workers[w].step > 0
    /\ events' = events \o <<Progress("Error: "), FinishedNone>>
    /\ workers' = [workers EXCEPT ![w].state = "finished"]
    /\ UNCHANGED <<solver_state, workbooks, generator, tab>>

on_progress ==
    \* the status label and the log take the message
    /\ events # <<>>
    /\ Head(events).signal = "progress"
    /\ events' = Tail(events)
    /\ UNCHANGED <<solver_state, workbooks, generator, tab, workers>>

on_solve_finished ==
    \* both buttons are enabled again; a result is kept, a successful one
    \* enables Export
    /\ events # <<>>
    /\ Head(events).signal = "finished"
    /\ events' = Tail(events)
    /\ tab' = LET enabled == [tab EXCEPT !.solve_btn = TRUE, !.load_btn = TRUE]
                  r == Head(events)
              IN IF ~r.has_result THEN enabled
                 ELSE [enabled EXCEPT !.has_result = TRUE,
                                      !.export_btn = @ \/ r.result.success]
    /\ UNCHANGED <<solver_state, workbooks, generator, workers>>

InitTab == ConstructedOn({OverlapCatalog})

NextTab ==
    \/ ClickLoadDatabase
    \/ ClickSolve
    \/ \E w \in 1..Len(workers) : WorkerProgress(w)
    \/ \E w \in 1..Len(workers) : WorkerFinish(w)
    \/ \E w \in 1..Len(workers) : WorkerRaise(w)
    \/ on_progress
    \/ on_solve_finished

SpecTab == InitTab /\ [][NextTab]_vars

RequestCancel ==
    \* the orchestrator asks the running solve to stop; solve() takes no
    \* token and nothing in backtrack_search reads the request
    /\ pc = "dfs"
    /\ ~cancel_requested
    /\ cancel_requested' = TRUE
    /\ UNCHANGED <<elsewhere, trail, catalog, fault, first_run, variables, domains, pc, result, doms,
                   assignments, course_professor, stack, oracle, signals>>

NextCancel == Next \/ RequestCancel

SpecCancel == Init /\ [][NextCancel]_vars

-----------------------------------------------------------------------------
(* One call of is_hard_conflict on values and variables of the shapes     *)
(* build_lecture_variables and build_domains produce                       *)

OracleCourses ==
    <<Course("CSC111", 1, "", TRUE, FALSE),        \* three lectures, nine labs
      Course("AID311", 3, "Common", FALSE, FALSE), \* four lectures
      Course("CS401", 4, "AID", FALSE, FALSE),     \* one lecture
      Course("GP400", 4, "BIF", FALSE, TRUE)>>     \* one full-day lab

OracleVars ==
    Range(Concat([i \in 1..Len(OracleCourses) |-> LectureVarsOf(OracleCourses[i])])
          \o Concat([i \in 1..Len(OracleCourses) |-> LabVarsOf(OracleCourses[i])]))

OracleSlots == <<Sun1, Sun2, SunMid, Mon1>>

\* an instructor row whose InstructorID is NULL is loaded with id ""
OracleValues ==
    { AssignmentValue(t - 1, r, ins) :
        t \in 1..Len(OracleSlots), r \in {"R1", "R2"}, ins \in {"", "P1", "P2"} }

InitOracle ==
    /\ courses = OracleCourses
    /\ instructors = <<>>
    /\ instructor_courses = <<>>
    /\ rooms = <<>>
    /\ time_slots = OracleSlots
    /\ variables = <<>>
    /\ domains = <<>>
    /\ pc = "constructed"
    /\ result = NoResult
    /\ doms = <<>>
    /\ assignments = EmptyMap
    /\ course_professor = EmptyMap
    /\ stack = <<>>
    /\ signals = <<>>
    /\ fault = "none"
    /\ first_run = NoRun
    /\ cancel_requested = FALSE
    /\ trail = <<>>
    /\ Elsewhere
    /\ \E va \in OracleVars, vb \in OracleVars, a \in OracleValues, b \in OracleValues :
        oracle = [phase |-> "called", a |-> a, b |-> b, va |-> va, vb |-> vb,
                  out |-> FALSE]

OracleApply ==
    /\ oracle.phase = "called"
    /\ oracle' = [oracle EXCEPT !.phase = "returned",
                                !.out = is_hard_conflict(oracle.a, oracle.b,
                                                         oracle.va, oracle.vb)]
    /\ UNCHANGED <<catalog, surroundings, trail, signals, variables, domains, pc, result, doms, assignments,
                   course_professor, stack>>

NextOracle == OracleApply

SpecOracle == InitOracle /\ [][NextOracle]_vars

-----------------------------------------------------------------------------
(* The two build stages alone, on course rows of every kind the generator  *)
(* tells apart                                                             *)

GeneratorPool ==
    { Course("CSC111", 0, "", TRUE, FALSE),          \* year below 1
      Course("CS501", 5, "AID", TRUE, FALSE),        \* year above 4
      Course("CSC111", 1, "", FALSE, FALSE),         \* year 1, whitelisted
      Course("PHY113", 1, "", TRUE, FALSE),          \* the same with a lab
      Course("LRA401", 1, "", FALSE, FALSE),         \* year 1, Japanese
      Course("CSC112", 1, "", TRUE, FALSE),          \* year 1, off the whitelist
      Course("ECE111", 1, "", FALSE, TRUE),          \* year 1, graduation project
      Course("LRA403", 2, "", FALSE, FALSE),         \* year 2, Japanese
      Course("LRA401", 2, "", FALSE, FALSE),         \* Japanese, off the year-2 list
      Course("CSC211", 2, "", TRUE, FALSE),          \* year 2, whitelisted, lab
      Course("AID311", 3, "Common", FALSE, FALSE),   \* year 3, common
      Course("AID312", 3, "", TRUE, FALSE),          \* year 3, no specialization, lab
      Course("BIF311", 3, "BIF", FALSE, FALSE),      \* year 3, one specialization
      Course("CSC111", 3, "CSC", TRUE, FALSE),       \* year 3, off the whitelist
      Course("CS401", 4, "AID", FALSE, FALSE),       \* year 4, one specialization
      Course("CS401", 4, "Common", TRUE, FALSE),     \* the same id, common, lab
      Course("LRA401", 4, "", FALSE, FALSE),         \* year 4 with a Japanese id
      Course("GP400", 4, "BIF", FALSE, TRUE),        \* graduation project
      Course("GP401", 4, "Common", TRUE, TRUE),      \* common graduation project
      Course("A", 4, "B_Y4_C", TRUE, FALSE),         \* ids and specializations
      Course("A_Y4_B", 4, "C", TRUE, FALSE) }        \* that format alike

GeneratorLists == UNION {[1..n -> GeneratorPool] : n \in 0..MaxCourses}

GeneratorCatalogs ==
    { Catalog(cs, <<Instructor("P1", "Professor", ""),
                    Instructor("A1", "Assistant Professor", "")>>, <<>>,
              <<Room("R1", "Classroom"), Room("L1", "Lab")>>, <<Sun1, Sun2>>) :
        cs \in GeneratorLists }

\* and the catalogs of the whole pipeline, for the domains
BuildCatalogs == GeneratorCatalogs \cup Catalogs

InitBuild ==
    /\ \E cat \in BuildCatalogs :
        /\ courses = cat.courses
        /\ instructors = cat.instructors
        /\ instructor_courses = cat.instructor_courses
        /\ rooms = cat.rooms
        /\ time_slots = cat.time_slots
    /\ variables = <<>>
    /\ domains = <<>>
    /\ pc = "constructed"
    /\ result = NoResult
    /\ doms = <<>>
    /\ assignments = EmptyMap
    /\ course_professor = EmptyMap
    /\ stack = <<>>
    /\ oracle = NoOracle
    /\ signals = <<>>
    /\ fault = "none"
    /\ first_run = NoRun
    /\ cancel_requested = FALSE
    /\ trail = <<>>
    /\ Elsewhere

NextBuild == BuildLectureVariables \/ BuildDomains

SpecBuild == InitBuild /\ [][NextBuild]_vars

-----------------------------------------------------------------------------
(* Vocabulary of the properties                                            *)

Succeeded == pc = "done" /\ result.success

VarIds == {variables[i].var_id : i \in 1..Len(variables)}

\* the value the returned assignment map gives variable i
Given(i) == result.assignments[variables[i].var_id]

DistinctPairs == {p \in (1..Len(variables)) \X (1..Len(variables)) : p[1] # p[2]}

Days == {time_slots[t].day : t \in 1..Len(time_slots)}

Clock ==
    \* every minute some slot of the grid covers
    UNION {time_slots[t].start_min..(time_slots[t].end_min - 1) : t \in 1..Len(time_slots)}

\* variable v, given value val, is in session on that day at that minute: a
\* full-day variable holds its whole day, any other its slot [start, end)
Active(v, val, day, m) ==
    /\ Slot(val).day = day
    /\ \/ v.is_full_day
       \/ Slot(val).start_min <= m /\ m < Slot(val).end_min

ActiveTogether(v, val, w, wal, clock) ==
    \E day \in Days : \E m \in clock : Active(v, val, day, m) /\ Active(w, wal, day, m)

\* the resource rules of the conflict oracle, spelled out
SharesResource(a, b, va, vb) ==
    \/ a.instructor_id # "" /\ a.instructor_id = b.instructor_id
    \/ a.room_id = b.room_id
    \/ /\ va.group_id > 0 /\ va.year = vb.year /\ va.group_id = vb.group_id
       /\ ~(va.session_type = "LAB" /\ vb.session_type = "LAB"
            /\ va.section_id # vb.section_id)
    \/ /\ va.specialization # "" /\ va.year = vb.year
       /\ va.specialization = vb.specialization

SameCourseOtherStaff(a, b, va, vb) ==
    /\ va.course_id = vb.course_id
    /\ va.session_type = "LECTURE" /\ vb.session_type = "LECTURE"
    /\ a.instructor_id # b.instructor_id

TimesOverlap(a, b, va, vb) ==
    /\ Slot(a).day = Slot(b).day
    /\ \/ va.is_full_day \/ vb.is_full_day
       \/ ~(Slot(a).end_min <= Slot(b).start_min \/ Slot(b).end_min <= Slot(a).start_min)

\* the oracle as the claim words it
ConflictAsClaimed(a, b, va, vb) ==
    /\ TimesOverlap(a, b, va, vb)
    /\ \/ SharesResource(a, b, va, vb)
       \/ SameCourseOtherStaff(a, b, va, vb)

\* the same, the last rule applying only when both staff ids are non-empty
ConflictRules(a, b, va, vb) ==
    /\ TimesOverlap(a, b, va, vb)
    /\ \/ SharesResource(a, b, va, vb)
       \/ /\ SameCourseOtherStaff(a, b, va, vb)
          /\ a.instructor_id # "" /\ b.instructor_id # ""

SameCourseLectures(i, j) ==
    /\ variables[i].session_type = "LECTURE"
    /\ variables[j].session_type = "LECTURE"
    /\ variables[i].course_id = variables[j].course_id

\* some value of the built domains for every variable, no two conflicting,
\* one instructor for the lectures of a course; chosen: the values picked
\* for variables 1..Len(chosen)
RECURSIVE Extendable(_)
Extendable(chosen) ==
    IF Len(chosen) = Len(variables) THEN TRUE
    ELSE LET i == Len(chosen) + 1
         IN \E k \in 1..Len(domains[i]) :
               /\ \A j \in 1..Len(chosen) :
                     /\ ~is_hard_conflict(domains[i][k], chosen[j],
                                          variables[i], variables[j])
                     /\ SameCourseLectures(i, j) =>
                            domains[i][k].instructor_id = chosen[j].instructor_id
               /\ Extendable(Append(chosen, domains[i][k]))

Solvable == Extendable(<<>>)

AllDomainsNonEmpty == \A i \in 1..Len(variables) : Len(domains[i]) > 0

-----------------------------------------------------------------------------
(* Properties                                                              *)

\* C1: whenever backtrack_search returns success, no two distinct variables
\* have values that conflict: is_hard_conflict is false on every pair, and
\* no pair is on one day at overlapping times with a shared resource
C1_NoConflictInSuccess ==
    Succeeded =>
        \A p \in DistinctPairs :
            /\ ~is_hard_conflict(Given(p[1]), Given(p[2]), variables[p[1]], variables[p[2]])
            /\ ~ConflictRules(Given(p[1]), Given(p[2]), variables[p[1]], variables[p[2]])

\* a success in which two variables use one room on one day
C1_Witness ==
    /\ Succeeded
    /\ \E p \in DistinctPairs :
          /\ Given(p[1]).room_id = Given(p[2]).room_id
          /\ Slot(Given(p[1])).day = Slot(Given(p[2])).day

\* C2: with all built domains non-empty, backtrack_search succeeds exactly
\* when some choice of one domain value per variable is free of conflicts
\* and gives the lectures of each course one instructor
C2_SoundAndComplete ==
    (pc = "done" /\ AllDomainsNonEmpty) => (result.success <=> Solvable)

\* the same on catalogs whose variables have pairwise distinct var_ids
C2_OnDistinctVarIds ==
    (pc = "done" /\ AllDomainsNonEmpty /\ Cardinality(VarIds) = Len(variables))
        => (result.success <=> Solvable)

LecturesAgree(asg) ==
    \A p \in DistinctPairs :
        (/\ variables[p[1]].var_id \in DOMAIN asg
         /\ variables[p[2]].var_id \in DOMAIN asg
         /\ SameCourseLectures(p[1], p[2]))
        => asg[variables[p[1]].var_id].instructor_id
             = asg[variables[p[2]].var_id].instructor_id

C4_TotalAssignmentFromDomains ==
    Succeeded =>
        /\ DOMAIN result.assignments = VarIds
        /\ Cardinality(DOMAIN result.assignments) = Len(variables)
        /\ \A i \in 1..Len(variables) : Given(i) \in Range(domains[i])

C4_Witness == Succeeded /\ Len(variables) >= 2

\* C5: in a successful result two distinct variables with the same room, or
\* the same non-empty instructor, are never in session at the same minute
\* of a day (a full-day variable holding its whole day)
C5_NoDoubleBooking ==
    Succeeded =>
        LET clock == Clock
        IN \A p \in DistinctPairs :
              (\/ Given(p[1]).room_id = Given(p[2]).room_id
               \/ /\ Given(p[1]).instructor_id # ""
                  /\ Given(p[1]).instructor_id = Given(p[2]).instructor_id)
              => ~ActiveTogether(variables[p[1]], Given(p[1]),
                                 variables[p[2]], Given(p[2]), clock)

\* a success with a full-day variable, and two other variables in one room
\* on one day
C5_Witness ==
    /\ Succeeded
    /\ \E i \in 1..Len(variables) : variables[i].is_full_day
    /\ \E p \in DistinctPairs :
          /\ Given(p[1]).room_id = Given(p[2]).room_id
          /\ Slot(Given(p[1])).day = Slot(Given(p[2])).day

SameGroup(i, j) ==
    /\ variables[i].group_id > 0
    /\ variables[i].year = variables[j].year
    /\ variables[i].group_id = variables[j].group_id

LabsOfOtherSections(i, j) ==
    /\ variables[i].session_type = "LAB"
    /\ variables[j].session_type = "LAB"
    /\ variables[i].section_id # variables[j].section_id

\* C6: in a successful result two variables of one (year, group), group > 0,
\* are never in session at the same minute, unless both are labs of
\* different sections
C6_OnePerGroup ==
    Succeeded =>
        LET clock == Clock
        IN \A p \in DistinctPairs :
              (SameGroup(p[1], p[2]) /\ ~LabsOfOtherSections(p[1], p[2]))
              => ~ActiveTogether(variables[p[1]], Given(p[1]),
                                 variables[p[2]], Given(p[2]), clock)

\* a success in which two labs of one group and different sections run at
\* the same time, and a lecture of that group is scheduled too
C6_Witness ==
    /\ Succeeded
    /\ \E p \in DistinctPairs :
          /\ SameGroup(p[1], p[2]) /\ LabsOfOtherSections(p[1], p[2])
          /\ ActiveTogether(variables[p[1]], Given(p[1]),
                            variables[p[2]], Given(p[2]), Clock)
          /\ \E k \in 1..Len(variables) :
                SameGroup(p[1], k) /\ variables[k].session_type = "LECTURE"

SameSpecialization(i, j) ==
    /\ variables[i].specialization # ""
    /\ variables[i].year = variables[j].year
    /\ variables[i].specialization = variables[j].specialization

\* C7: in a successful result two variables of one (year, specialization),
\* specialization non-empty, are never in session at the same minute, labs
\* of different sections included
C7_OnePerSpecialization ==
    Succeeded =>
        LET clock == Clock
        IN \A p \in DistinctPairs :
              SameSpecialization(p[1], p[2])
              => ~ActiveTogether(variables[p[1]], Given(p[1]),
                                 variables[p[2]], Given(p[2]), clock)

\* a success with a lecture and a lab of one specialization on one day, in
\* different rooms with different staff
C7_Witness ==
    /\ Succeeded
    /\ \E p \in DistinctPairs :
          /\ SameSpecialization(p[1], p[2])
          /\ Slot(Given(p[1])).day = Slot(Given(p[2])).day
          /\ Given(p[1]).room_id # Given(p[2]).room_id
          /\ Given(p[1]).instructor_id # Given(p[2]).instructor_id

\* C8: when some built domain is empty, solve returns success = false,
\* hard_violations = 1 and no assignment, and the search is never entered
C8_EmptyDomainFailsAtOnce ==
    (pc \in {"dfs", "done"} /\ \E i \in 1..Len(variables) : Len(domains[i]) = 0)
        => /\ pc = "done"
           /\ result = CSPResult(FALSE, EmptyMap, 1, 0)
           /\ doms = <<>> /\ stack = <<>>

\* a failure on a catalog in which one variable has values and another none
C8_Witness ==
    /\ pc = "done"
    /\ \E i \in 1..Len(variables) : Len(domains[i]) = 0
    /\ \E i \in 1..Len(variables) : Len(domains[i]) > 0

\* C9: when all built domains are non-empty and the search finds nothing,
\* the result has success = false and hard_violations >= 1
C9_UnsatisfiableReported ==
    (pc = "done" /\ AllDomainsNonEmpty /\ ~result.success)
        => result.hard_violations >= 1

\* C10 as claimed: is_hard_conflict is true exactly when the slots are on
\* one day, the times overlap and a resource collides, where same course,
\* both LECTURE and differing staff counts as a collision
C10_AsClaimed ==
    oracle.phase = "returned" =>
        (oracle.out <=> ConflictAsClaimed(oracle.a, oracle.b, oracle.va, oracle.vb))

\* C10 amended: the same, the same-course rule applying only when both
\* staff ids are non-empty; values on different days never conflict; a
\* full-day value conflicts with every same-day value sharing a resource
C10_Oracle ==
    oracle.phase = "returned" =>
        LET a == oracle.a  b == oracle.b  va == oracle.va  vb == oracle.vb
        IN /\ oracle.out <=> ConflictRules(a, b, va, vb)
           /\ Slot(a).day # Slot(b).day => ~oracle.out
           /\ (/\ Slot(a).day = Slot(b).day
               /\ va.is_full_day \/ vb.is_full_day
               /\ SharesResource(a, b, va, vb)) => oracle.out

\* a conflict between a full-day value and a value whose slot does not
\* touch the full-day value's slot
C10_Witness ==
    /\ oracle.phase = "returned"
    /\ oracle.out
    /\ oracle.va.is_full_day
    /\ Slot(oracle.a).end_min <= Slot(oracle.b).start_min

-----------------------------------------------------------------------------
(* The variable generator                                                  *)

VariablesBuilt == pc # "constructed"

ClosedSpecializations == {"AID", "BIF", "CSC", "CNC"}

Whitelist(yr) ==
    IF yr = 1 THEN Range(year1) ELSE IF yr = 2 THEN Range(year2) ELSE Range(year3)

\* what a claim says of one variable: its course, year, group, section,
\* length and full-day flag, and for years 3-4 its specialization
Shape(course_id, yr, grp, sec, spec, len, full) ==
    [course_id |-> course_id, year |-> yr, group_id |-> grp, section_id |-> sec,
     specialization |-> spec, length_min |-> len, is_full_day |-> full]

ShapeOf(v) ==
    Shape(v.course_id, v.year, v.group_id, v.section_id,
          IF v.year \in {3, 4} THEN v.specialization ELSE "", v.length_min,
          v.is_full_day)

\* how many variables of the session type have the shape
Emitted(type, shape) ==
    Cardinality({i \in 1..Len(variables) :
                    variables[i].session_type = type /\ ShapeOf(variables[i]) = shape})

\* how many course rows are to give one variable of the shape
Due(Claimed(_), shape) ==
    Cardinality({i \in 1..Len(courses) : shape \in Claimed(courses[i])})

EmitsExactly(type, Claimed(_)) ==
    LET shapes == UNION {Claimed(courses[i]) : i \in 1..Len(courses)}
                  \cup {ShapeOf(variables[i]) : i \in
                          {j \in 1..Len(variables) : variables[j].session_type = type}}
    IN \A shape \in shapes : Emitted(type, shape) = Due(Claimed, shape)

ClaimedLectures(c) ==
    IF c.year \notin 1..4 \/ c.is_grad_project THEN {}
    ELSE IF c.year \in 1..3 /\ c.id \notin Whitelist(c.year) THEN {}
    ELSE IF c.year \in {3, 4} THEN
        IF c.specialization \in {"Common", ""}
        THEN {Shape(c.id, c.year, 0, 0, s, 90, FALSE) : s \in ClosedSpecializations}
        ELSE {Shape(c.id, c.year, 0, 0, c.specialization, 90, FALSE)}
    ELSE IF c.id \in {"LRA401", "LRA403"}
        THEN {Shape(c.id, c.year, g, s, "", 90, FALSE) : g \in 1..3, s \in 1..3}
        ELSE {Shape(c.id, c.year, g, 0, "", 90, FALSE) : g \in 1..3}

\* C11: the LECTURE variables are exactly those due to the course rows: none
\* for a year outside 1..4, a graduation project or a year 1-3 course off
\* its whitelist; four (one per specialization, group 0, section 0) for a
\* common year 3-4 course, one for a year 3-4 course of one specialization,
\* nine (group x section) for a Japanese-language year 1-2 course, three
\* (one per group, section 0) for any other; all 90 minutes, none full-day
C11_LectureVariables ==
    VariablesBuilt => EmitsExactly("LECTURE", ClaimedLectures)

\* a Japanese-language course next to a year-3 course off the whitelist:
\* nine lectures in all
C11_Witness ==
    /\ VariablesBuilt
    /\ \E i \in 1..Len(courses) : courses[i].year = 1 /\ courses[i].id = "LRA401"
    /\ \E i \in 1..Len(courses) : courses[i].year = 3 /\ courses[i].id \notin Range(year3)
    /\ Cardinality({i \in 1..Len(variables) : variables[i].session_type = "LECTURE"}) = 9

ClaimedLabs(c) ==
    IF c.year \notin 1..4 \/ ~(c.has_lab \/ c.is_grad_project) THEN {}
    ELSE IF c.year \in {1, 2}
        THEN {Shape(c.id, c.year, g, s, "", 90, c.is_grad_project) : g \in 1..3, s \in 1..3}
    ELSE IF c.specialization \in {"Common", ""}
        THEN {Shape(c.id, c.year, 0, 1, s, 90, c.is_grad_project) : s \in ClosedSpecializations}
        ELSE {Shape(c.id, c.year, 0, 1, c.specialization, 90, c.is_grad_project)}

\* C12: the LAB variables are exactly those due to the course rows with year
\* in 1..4 and has_lab or is_grad_project, whitelisted or not: nine (group x
\* section) for year 1-2, four (one per specialization, group 0, section 1)
\* for a common year 3-4 course, one for a year 3-4 course of one
\* specialization; all 90 minutes, full-day exactly for graduation projects
C12_LabVariables ==
    VariablesBuilt => EmitsExactly("LAB", ClaimedLabs)

\* a year-1 lab course off the whitelist next to a common graduation
\* project: nine labs and four full-day ones, no lecture
C12_Witness ==
    /\ VariablesBuilt
    /\ \E i \in 1..Len(courses) :
          courses[i].year = 1 /\ courses[i].has_lab /\ courses[i].id \notin Range(year1)
    /\ Cardinality({i \in 1..Len(variables) : variables[i].is_full_day}) = 4
    /\ Cardinality({i \in 1..Len(variables) : variables[i].session_type = "LAB"}) = 13
    /\ \A i \in 1..Len(variables) : variables[i].session_type = "LAB"

\* C13: after build_lecture_variables no two variables of the list share a
\* var_id
C13_UniqueVarIds ==
    VariablesBuilt =>
        \A i, j \in 1..Len(variables) :
            variables[i].var_id = variables[j].var_id => i = j

-----------------------------------------------------------------------------
(* The domain builder                                                      *)

DomainsBuilt == pc \notin {"constructed", "variables_built"}

\* q, read as a comma-delimited list, has the item cid (items trimmed)
HasToken(q, cid) ==
    \E i \in 1..(Len(q) + 1), j \in 0..Len(q) :
        /\ i <= j + 1
        /\ i = 1 \/ SubSeq(q, i - 1, i - 1) = ","
        /\ j = Len(q) \/ SubSeq(q, j + 1, j + 1) = ","
        /\ \A k \in i..j : SubSeq(q, k, k) # ","
        /\ Strip(SubSeq(q, i, j)) = cid

\* the staff listed as qualified for the course: by the join table, or by
\* the qualification strings when the join table is empty
Listed(cid) ==
    IF instructor_courses # <<>>
    THEN {instructor_courses[k].instructor_id :
            k \in {n \in 1..Len(instructor_courses) :
                      instructor_courses[n].course_id = cid}}
    ELSE {instructors[k].id :
            k \in {n \in 1..Len(instructors) :
                      HasToken(instructors[n].qualified_courses, cid)}}

Staff(role) == {instructors[k].id : k \in {n \in 1..Len(instructors) : instructors[n].role = role}}

AllStaff == {instructors[k].id : k \in 1..Len(instructors)}

LongEnough(v) ==
    {t \in 1..Len(time_slots) : time_slots[t].end_min - time_slots[t].start_min >= v.length_min}

RoomsOf(types) == {rooms[k].id : k \in {n \in 1..Len(rooms) : rooms[n].room_type \in types}}

Triples(slots, rms, staff) ==
    {AssignmentValue(t - 1, r, s) : t \in slots, r \in rms, s \in staff}

LectureStaff(v) ==
    IF Listed(v.course_id) \cap Staff("Professor") # {}
    THEN Listed(v.course_id) \cap Staff("Professor")
    ELSE Staff("Professor")

\* C14: the domain of a LECTURE variable is exactly the triples of a slot of
\* at least length_min minutes, a Classroom, Theater or Hall, and a
\* professor listed as qualified for the course, or any professor when none
\* is listed; every LECTURE value has a professor as staff
C14_LectureDomains ==
    DomainsBuilt =>
        \A i \in 1..Len(variables) :
            variables[i].session_type = "LECTURE" =>
                /\ Range(domains[i]) =
                       Triples(LongEnough(variables[i]),
                               RoomsOf({"Classroom", "Theater", "Hall"}),
                               LectureStaff(variables[i]))
                /\ \A k \in 1..Len(domains[i]) :
                       domains[i][k].instructor_id \in Staff("Professor")

\* a lecture whose course lists a professor and an assistant professor,
\* with a slot too short and a room of another type left out
C14_Witness ==
    /\ DomainsBuilt
    /\ \E i \in 1..Len(variables) :
          /\ variables[i].session_type = "LECTURE"
          /\ domains[i] # <<>>
          /\ Listed(variables[i].course_id) \cap Staff("Assistant Professor") # {}
          /\ Listed(variables[i].course_id) \cap Staff("Professor") # {}
          /\ LongEnough(variables[i]) # 1..Len(time_slots)
          /\ \E k \in 1..Len(rooms) : rooms[k].room_type = "Lab"

LabStaff(v) ==
    IF Listed(v.course_id) \cap Staff("Assistant Professor") # {}
    THEN Listed(v.course_id) \cap Staff("Assistant Professor")
    ELSE IF Staff("Assistant Professor") # {} THEN Staff("Assistant Professor")
    ELSE AllStaff

\* C15: the domain of a LAB variable is exactly the triples of a slot of at
\* least length_min minutes, a Lab or Classroom, and a member of the first
\* non-empty of: the assistant professors listed as qualified for the
\* course, all assistant professors, all staff
C15_LabDomains ==
    DomainsBuilt =>
        \A i \in 1..Len(variables) :
            variables[i].session_type = "LAB" =>
                Range(domains[i]) =
                    Triples(LongEnough(variables[i]), RoomsOf({"Lab", "Classroom"}),
                            LabStaff(variables[i]))

\* a lab given a professor in a classroom, no assistant professor being on
\* the staff
C15_Witness ==
    /\ DomainsBuilt
    /\ Staff("Assistant Professor") = {}
    /\ \E i \in 1..Len(variables) :
          /\ variables[i].session_type = "LAB"
          /\ \E k \in 1..Len(domains[i]) :
                /\ domains[i][k].instructor_id \in Staff("Professor")
                /\ domains[i][k].room_id \in RoomsOf({"Classroom"})

\* two slots are consecutive: the same day, the one ending where the other
\* starts
Consecutive(a, b) == a.day = b.day /\ a.end_min = b.start_min

RECURSIVE ChainFrom(_, _)
\* slot t is the first of n consecutive slots
ChainFrom(t, n) ==
    IF n <= 1 THEN TRUE
    ELSE \E u \in 1..Len(time_slots) :
            Consecutive(time_slots[t], time_slots[u]) /\ ChainFrom(u, n - 1)

\* C16: every value in the domain of a full-day variable starts at the first
\* of eight consecutive slots of one day
C16_FullDayChainFits ==
    DomainsBuilt =>
        \A i \in 1..Len(variables) :
            variables[i].is_full_day =>
                \A k \in 1..Len(domains[i]) :
                    ChainFrom(domains[i][k].timeslot_index + 1, 8)

-----------------------------------------------------------------------------
(* Runs of the pipeline                                                    *)

\* C17: a second run of build_lecture_variables, build_domains and solve on
\* the same CSPSolver, the inputs unchanged, builds the same variable list
\* in the same order and the same domains, starts the search from the built
\* domains with nothing assigned and no course professor, and returns the
\* same success flag and assignment map
C17_SecondRunAgrees ==
    first_run.ran =>
        /\ pc # "constructed" => variables = first_run.variables
        /\ DomainsBuilt => domains = first_run.domains
        /\ (pc = "dfs" /\ stack = <<EnterFrame>>) =>
               /\ doms = domains
               /\ assignments = EmptyMap
               /\ course_professor = EmptyMap
        /\ pc = "done" =>
               /\ result.success = first_run.result.success
               /\ result.assignments = first_run.result.assignments

\* a second run that ends with the schedule of the first, several sessions
\* placed
C17_Witness ==
    /\ first_run.ran
    /\ pc = "done"
    /\ result.success
    /\ Cardinality(DOMAIN result.assignments) >= 3
    /\ result.assignments = first_run.result.assignments

\* C18: when the instance with one time slot removed is solved with
\* success, so is the instance itself
C18_MonotoneInfeasibility ==
    (first_run.ran /\ pc = "done" /\ result.success) => first_run.result.success

\* an instance solved, and solved again without a slot that its first
\* schedule used
C18_Witness ==
    /\ first_run.ran
    /\ pc = "done"
    /\ result.success
    /\ first_run.result.success
    /\ Cardinality(DOMAIN result.assignments) >= 2
    /\ result.assignments # first_run.result.assignments

PhaseMessages == <<"Building variables...", "Building domains...", "Solving CSP...">>

RunOver == pc \in {"done", "failed"}

Completions == {k \in 1..Len(signals) : signals[k].signal = "finished"}

\* the progress messages that name a phase, in the order emitted
PhasesReported ==
    LET named == SelectSeq(signals, LAMBDA s :
                     s.signal = "progress" /\ s.message \in Range(PhaseMessages))
    IN [k \in 1..Len(named) |-> named[k].message]

\* C19: in every run of SolverThread.run the phases are reported in the
\* order building variables, building domains, solving; the run emits one
\* completion signal, none while it is under way, and that signal follows
\* every progress message; a phase that raises is reported by a progress
\* message followed by a completion without a result
C19_ProgressBeforeCompletion ==
    /\ PhasesReported = SubSeq(PhaseMessages, 1, Len(PhasesReported))
    /\ ~RunOver => Completions = {}
    /\ RunOver => Completions = {Len(signals)}
    /\ pc = "done" =>
          /\ PhasesReported = PhaseMessages
          /\ signals[Len(signals)] = Finished(result)
    /\ pc = "failed" =>
          /\ Len(signals) >= 3
          /\ signals[Len(signals) - 1] = Progress(ErrorMessage)
          /\ signals[Len(signals)] = FinishedNone

\* a run whose search raises after the three phases were reported
C19_Witness ==
    /\ pc = "failed"
    /\ fault = "solve"
    /\ Len(signals) = 5
    /\ DOMAIN assignments # {}

\* C20: a DFS frame entered after cancellation was requested ends the
\* search, and solve returns a result with success = false
C20_CancellationStops ==
    [][(cancel_requested /\ pc = "dfs" /\ Top.phase = "enter")
            => (pc' = "done" /\ ~result'.success)]_vars

-----------------------------------------------------------------------------
(* The soft cost and the steps of the search                               *)

\* the course of the variable an assignment entry belongs to
CourseOfEntry(id) == variables[FirstIndexOf(id)].course_id

SessionsOn(asg, course, day) ==
    {id \in DOMAIN asg : CourseOfEntry(id) = course /\ Slot(asg[id]).day = day}

ClaimedCost(asg) ==
    IF time_slots = <<>> THEN 0
    ELSE LET starts   == {time_slots[t].start_min : t \in 1..Len(time_slots)}
             earliest == CHOOSE m \in starts : \A n \in starts : m <= n
             early    == {id \in DOMAIN asg : Slot(asg[id]).start_min = earliest}
             pairs    == {<<CourseOfEntry(id), Slot(asg[id]).day>> : id \in DOMAIN asg}
             extra    == [p \in pairs |->
                             LET n == Cardinality(SessionsOn(asg, p[1], p[2]))
                             IN IF n > 1 THEN n - 1 ELSE 0]
         IN 5 * Cardinality(early) + 2 * SumOver(pairs, extra)

\* C25: the soft cost of an assignment map is 5 for every session in a slot
\* that starts at the earliest start minute plus 2 for every session of a
\* course beyond the first on one day, and a successful result reports this
\* cost of its assignments
C25_SoftCostAsClaimed ==
    /\ pc = "dfs" => compute_soft_cost(assignments) = ClaimedCost(assignments)
    /\ Succeeded => result.soft_cost = ClaimedCost(result.assignments)

\* the frame on top of the stack after the step
NewTop == stack'[Len(stack')]

LastTried == Top.domain_copy[Top.k - 1]

Fitting(j) ==
    SelectSeq(domains[j], LAMBDA cand :
        /\ \A id \in DOMAIN assignments :
                ~is_hard_conflict(assignments[id], cand,
                                  variables[FirstIndexOf(id)], variables[j])
        /\ (variables[j].session_type = "LECTURE"
            /\ variables[j].course_id \in DOMAIN course_professor)
                => course_professor[variables[j].course_id] = cand.instructor_id)

AtFrameEntry == pc = "dfs" /\ Top.phase = "enter"

AssignedLectures ==
    {i \in {stack[n].chosen : n \in {m \in 1..Len(stack) : stack[m].phase \in {"call", "wiped"}}} :
        variables[i].session_type = "LECTURE"}

AfterBacktrack == pc = "dfs" /\ Top.phase = "loop" /\ Top.k > 1

-----------------------------------------------------------------------------
(* The solver tab                                                          *)

RunningWorkers == {w \in 1..Len(workers) : Running(w)}

CompletionPending == \E k \in 1..Len(events) : events[k].signal = "finished"

\* C30: at most one SolverThread runs at a time, the CSPSolver it works on is
\* still the tab's solver and no second worker has it while it runs; Solve
\* and Load Database are disabled from the start of a solve until its
\* finished signal has been handled; Solve is enabled only once a database
\* has been loaded
C30_OneSolveAtATime ==
    /\ Cardinality(RunningWorkers) <= 1
    /\ \A w \in RunningWorkers : workers[w].solver = tab.solver
    /\ (RunningWorkers # {} \/ CompletionPending) => (~tab.solve_btn /\ ~tab.load_btn)
    /\ tab.solve_btn => tab.solver # 0

\* a second solve runs on a solver loaded after the first solve was over
C30_Witness ==
    /\ Len(workers) = 2
    /\ workers[1].state = "finished" /\ Running(2)
    /\ workers[1].solver # workers[2].solver
    /\ workers[2].step > 0

-----------------------------------------------------------------------------
(* The propagation formulation                                             *)

Reported == generator.pc = "solved" /\ generator.success

\* the sessions the loaded catalog requires: <<course, cohort, type, number>>
RequiredSessions ==
    UNION {
        LET c == generator.courses[ci]
            groups == Range(get_groups_for_course(c))
            sections == Range(get_sections_for_course(c))
        IN    (IF c.is_graduation_project
               THEN {<<c.code, GroupId(g), "GRAD_PROJECT", 0>> : g \in groups}
               ELSE {<<c.code, GroupId(g), "LEC", n>> :
                        <<g, n>> \in groups \X (0..(c.lec_count - 1))})
         \cup {<<c.code, SectionId(s), "TUT", n>> :
                        <<s, n>> \in sections \X (0..(c.tut_count - 1))}
         \cup (IF c.code = "PHY113"
               THEN {<<c.code, GroupId(g), "LAB", n>> :
                        <<g, n>> \in groups \X (0..(c.lab_count - 1))}
               ELSE {<<c.code, SectionId(s), "LAB", n>> :
                        <<s, n>> \in sections \X (0..(c.lab_count - 1))})
        : ci \in 1..Len(generator.courses)}

SelectedFor(session) ==
    {i \in generator.selected :
        LET s == generator.session_vars[i]
        IN <<s.course, IF OfGroup(s) THEN s.group ELSE s.section, s.type, s.session_num>>
               = session}

\* C22: in a reported solution every required session of every loaded course
\* and every cohort that needs it has exactly one selected candidate
C22_EveryRequiredSessionOnce ==
    Reported => \A session \in RequiredSessions : Cardinality(SelectedFor(session)) = 1

\* the sessions create_variables made candidates for
SessionsWithCandidatesOnce ==
    Reported =>
        \A session \in {Identifier(s) : s \in Entries} :
            Cardinality(SelectedFor(session)) = 1

SlotIds == 0..(Len(generator.timeslots) - 1)

ClaimedSlots(s) ==
    IF s.type = "GRAD_PROJECT" THEN Range(s.slot_list)
    ELSE IF s.slot2 # -1 THEN {s.slot, s.slot + 1}
    ELSE {s.slot}

\* C23: in a reported solution at most one selected session occupies a hall
\* in a slot and at most one occupies an instructor or TA in a slot, a pair
\* session occupying slot and slot + 1 and a graduation project its eight slots
C23_NoHallOrStaffDoubleBooked ==
    Reported =>
        \A slot \in SlotIds :
            /\ \A h \in 1..Len(generator.halls) :
                   Cardinality({i \in generator.selected :
                       /\ generator.session_vars[i].hall = generator.halls[h].id
                       /\ slot \in ClaimedSlots(generator.session_vars[i])}) <= 1
            /\ \A staff \in Range(IdsOf(generator.instructors)) \cup Range(IdsOf(generator.tas)) :
                   Cardinality({i \in generator.selected :
                       /\ generator.session_vars[i].instructor = staff
                       /\ slot \in ClaimedSlots(generator.session_vars[i])}) <= 1

\* a graduation project and a lecture share the hall and the instructor, or
\* two lectures share the hall
C23_Witness ==
    /\ Reported
    /\ \E i, j \in generator.selected :
           /\ i # j
           /\ generator.session_vars[i].hall = generator.session_vars[j].hall
           /\ Cardinality(ClaimedSlots(generator.session_vars[i])) \in {2, 8}
           /\ Cardinality(ClaimedSlots(generator.session_vars[j])) = 2
    /\ \E i, j \in generator.selected :
           /\ generator.session_vars[i].type = "GRAD_PROJECT"
           /\ generator.session_vars[j].type = "LEC"
           /\ generator.session_vars[i].instructor = generator.session_vars[j].instructor

\* C24: in a reported solution at most one selected session that affects a
\* section occupies a slot: its own tutorials and labs, and the lectures,
\* graduation projects and physics labs of its group
C24_NoSectionDoubleBooked ==
    Reported =>
        \A k \in 1..Len(generator.sections), slot \in SlotIds :
            LET id == SectionId(generator.sections[k])
            IN Cardinality({i \in generator.selected :
                   LET s == generator.session_vars[i]
                   IN /\ slot \in ClaimedSlots(s)
                      /\ \/ s.type \in {"TUT", "LAB"} /\ s.section = id
                         \/ /\ \/ s.type \in {"LEC", "GRAD_PROJECT"}
                               \/ s.type = "LAB" /\ s.course = "PHY113"
                            /\ id \in Range(s.sections_in_group)}) <= 1

\* a section has a lab of its own and a physics lab of its group, in
\* different halls with different TAs
C24_Witness ==
    /\ Reported
    /\ \E i, j \in generator.selected :
           /\ generator.session_vars[i].type = "LAB"
           /\ generator.session_vars[i].section # ""
           /\ generator.session_vars[j].type = "LAB"
           /\ generator.session_vars[j].group # ""
           /\ generator.session_vars[i].section \in Range(generator.session_vars[j].sections_in_group)
           /\ generator.session_vars[i].hall # generator.session_vars[j].hall
           /\ generator.session_vars[i].instructor # generator.session_vars[j].instructor

-----------------------------------------------------------------------------
(* One catalog given to both formulations.  The catalog of the CSPSolver   *)
(* is written as the sheets the generator loads: a course row per course   *)
(* with one lecture, a section row for the cohort of each year and         *)
(* specialization, the professors with the courses the solver's table      *)
(* lists for them, a hall per room and the time slots unchanged.           *)

RECURSIVE Join(_)
Join(words) ==
    IF words = <<>> THEN ""
    ELSE IF Len(words) = 1 THEN words[1]
    ELSE words[1] \o ", " \o Join(Tail(words))

SheetCourses ==
    [i \in 1..Len(courses) |->
        CourseRow(courses[i].id, courses[i].year, courses[i].specialization, 2, 0, 0)]

SheetSections ==
    LET cohorts == FirstOccurrences([i \in 1..Len(courses) |->
                                        <<courses[i].year, courses[i].specialization>>])
    IN [k \in 1..Len(cohorts) |-> SectionRow(cohorts[k][1], cohorts[k][2], 1, 1, 30)]

SheetInstructors ==
    LET professors == SelectSeq(instructors, LAMBDA ins : ins.role = "Professor")
        ids == FirstOccurrences([i \in 1..Len(courses) |-> courses[i].id])
        listed(p) == SelectSeq(ids, LAMBDA cid : p.id \in Range(course_to_instructors(cid)))
    IN [k \in 1..Len(professors) |->
            StaffRow(professors[k].id,
                     IF listed(professors[k]) = <<>> THEN NoCell
                     ELSE Join(listed(professors[k])))]

SheetHalls == [k \in 1..Len(rooms) |-> HallRow("B1", rooms[k].id, 40, rooms[k].room_type)]

SheetTimeSlots ==
    [k \in 1..Len(time_slots) |->
        SlotRow(time_slots[k].day, time_slots[k].start_min, time_slots[k].end_min)]

SameCatalog ==
    Workbooks(SheetCourses, SheetSections, SheetInstructors, <<>>, SheetHalls, SheetTimeSlots)

\* catalogs of year-4 lecture courses, with and without rooms
LectureCatalogs ==
    { Catalog(cs, st.instructors, st.instructor_courses, rms, tss) :
        cs \in {l \in CourseLists :
                   \A i \in 1..Len(l) : ~l[i].has_lab /\ ~l[i].is_grad_project},
        st \in Staffings, rms \in RoomLists \cup {<<>>}, tss \in SlotLists }

InitBoth ==
    /\ SolverOn(LectureCatalogs)
    /\ workbooks = SameCatalog
    /\ generator = NewGenerator(0, "")
    /\ tab = NewSolverTab
    /\ workers = <<>>
    /\ events = <<>>

NextBoth == Next \/ NextGenerator

SpecBoth == InitBoth /\ [][NextBoth]_vars

\* C21: once both formulations have answered for the same catalog, the
\* CSPSolver reports success exactly when the generator does
C21_SameFeasibilityAnswer ==
    (pc = "done" /\ generator.pc = "solved") => (result.success <=> generator.success)

=============================================================================
